---- MODULE Spec2Model ----
(***************************************************************************)
(* Model of the dice probability engine of arcs_funcs.py together with the *)
(* brute-force enumeration of test_microstate_validation.py.               *)
(*                                                                         *)
(* A face is a sequence of symbols, a combination (roll) is a sequence of  *)
(* faces.  An outcome key (a Python str) is a sequence of one-character    *)
(* strings, so that formatting and scanning are modelled by what they do.  *)
(* A probability count / total_states is kept as the exact fraction: the   *)
(* numerator is stored, the denominator is total_states.                   *)
(* The optional argument fresh_targets is None or Some(n).                 *)
(***************************************************************************)
EXTENDS Integers, Sequences, FiniteSets, TLC

\* Bounds of the model: dice rolled in one configuration, fresh targets.
MaxTotalDice == 3
MaxFresh == 2

\* The number of assault dice of the configuration run in 64-bit floats.
WideAssault == 21

\* The passes of the loop body one step of that run covers.
WideStride == 20

\* The number of samples the script arcs_bc.py is run with.
MaxDraws == 2

\* The largest value of a dice slider of the app.
SliderMax == 6

\* The most rolls the session's roll list is followed to.
MaxRolls == 2

\* Bounds of the calls of the memoized functions made on their own: the
\* dice of a pool in a single call, the calls of one program, and the
\* entries the cache of parse_dice holds (maxsize, 8192 in the code).
MaxDirect == 1
MaxCalls == 4
LruSize == 2

\* Bounds of the queries: the largest count of an outcome and the largest
\* bound asked of evaluate_truth_table.
MaxCount == 2
MaxBound == 1

None == <<>>
Some(n) == <<n>>

-----------------------------------------------------------------------------
(* Dice face definitions, arcs_funcs.py lines 128-170 *)

\* Skirmish faces on which the hit comes with a flame.
SkirmishDiceWithFlame ==
    << <<"blank">>,
       <<"hit", "flame">> >>

SKIRMISH_DICE ==
    << <<"blank">>,
       <<"hit">> >>

ASSAULT_DICE ==
    << <<"hit", "flame">>,
       <<"hit", "hit">>,
       <<"hit", "hit", "flame">>,
       <<"blank">>,
       <<"hit", "intercept">>,
       <<"hit", "flame">> >>

UNIQUE_ASSAULT_DICE ==
    << <<"hit", "flame">>,
       <<"hit", "hit">>,
       <<"hit", "hit", "flame">>,
       <<"blank">>,
       <<"hit", "intercept">> >>

RAID_DICE ==
    << <<"hitb", "flame">>,
       <<"intercept">>,
       <<"intercept", "key", "key">>,
       <<"key", "flame">>,
       <<"key", "hitb">>,
       <<"hitb", "flame">> >>

UNIQUE_RAID_DICE ==
    << <<"hitb", "flame">>,
       <<"intercept">>,
       <<"intercept", "key", "key">>,
       <<"key", "flame">>,
       <<"key", "hitb">> >>

\* The full face list a die type's frequencies are counted in.
DiceOf(dice_str) ==
    CASE dice_str = "skirmish" -> SKIRMISH_DICE
      [] dice_str = "assault" -> ASSAULT_DICE
      [] dice_str = "raid" -> RAID_DICE

\* Counter(list)[x]: the number of occurrences of x, 0 when absent.
Counter(list, x) == Cardinality({i \in DOMAIN list : list[i] = x})

\* A frequency table in which the repeated face of a six-face list is
\* counted for the face listed after it.
FaceFrequenciesShifted(dice_str, face) ==
    LET list == DiceOf(dice_str)
        first == CHOOSE i \in DOMAIN list :
                     /\ list[i] = face
                     /\ \A j \in DOMAIN list : list[j] = face => i <= j
    IN  IF Counter(list, face) = 0 \/ Len(list) # 6 THEN Counter(list, face)
        ELSE IF first = 1 THEN 1
        ELSE IF first = 2 THEN 2
        ELSE 1

\* A frequency table that counts every face of a list once.
FaceFrequenciesOnce(dice_str, face) ==
    IF Counter(DiceOf(dice_str), face) > 0 THEN 1 ELSE 0

FACE_FREQUENCIES(dice_str, face) == Counter(DiceOf(dice_str), face)

\* The face list a die type's combinations are drawn from in
\* compute_probabilities, lines 351-364.
EnumeratedDiceOf(dice_str) ==
    CASE dice_str = "skirmish" -> SKIRMISH_DICE
      [] dice_str = "assault" -> UNIQUE_ASSAULT_DICE
      [] dice_str = "raid" -> UNIQUE_RAID_DICE

-----------------------------------------------------------------------------
(* parse_dice, arcs_funcs.py lines 173-267 *)

RECURSIVE Flatten(_)
\* for dice in roll_dict.values(): for die in dice: for symbol in die
Flatten(dice) ==
    IF dice = <<>> THEN <<>> ELSE Head(dice) \o Flatten(Tail(dice))

RollSymbols(skirmish_combination, assault_combination, raid_combination) ==
    Flatten(skirmish_combination) \o Flatten(assault_combination)
        \o Flatten(raid_combination)

InitAccumulator ==
    [hits |-> 0, hitbs |-> 0, damage |-> 0, keys |-> 0,
     intercepts |-> FALSE, blanks |-> 0, raised |-> "none"]

\* The loop body of a resolution that mishandles intercepts: every intercept
\* symbol converts, not only the first.
ResolveSymbolEveryIntercept(acc, symbol, fresh_targets, convert_intercepts) ==
    IF acc.raised # "none" THEN acc
    ELSE IF symbol = "hit" THEN [acc EXCEPT !.hits = @ + 1]
    ELSE IF symbol = "flame" THEN [acc EXCEPT !.damage = @ + 1]
    ELSE IF symbol = "intercept" THEN
        IF convert_intercepts
        THEN IF fresh_targets = None
             THEN [acc EXCEPT !.intercepts = TRUE, !.raised = "ValueError"]
             ELSE [acc EXCEPT !.intercepts = TRUE,
                              !.damage = @ + fresh_targets[1]]
        ELSE [acc EXCEPT !.intercepts = TRUE]
    ELSE IF symbol = "blank" THEN [acc EXCEPT !.blanks = @ + 1]
    ELSE IF symbol = "hitb" THEN [acc EXCEPT !.hitbs = @ + 1]
    ELSE IF symbol = "key" THEN [acc EXCEPT !.keys = @ + 1]
    ELSE [acc EXCEPT !.raised = "NotImplementedError"]

\* The loop body of a resolution that adds fresh_targets on the first
\* intercept whether or not intercepts are to be converted.
ResolveSymbolAlwaysConverts(acc, symbol, fresh_targets, convert_intercepts) ==
    IF acc.raised # "none" THEN acc
    ELSE IF symbol = "hit" THEN [acc EXCEPT !.hits = @ + 1]
    ELSE IF symbol = "flame" THEN [acc EXCEPT !.damage = @ + 1]
    ELSE IF symbol = "intercept" THEN
        IF acc.intercepts THEN acc
        ELSE IF fresh_targets = None
        THEN IF convert_intercepts
             THEN [acc EXCEPT !.intercepts = TRUE, !.raised = "ValueError"]
             ELSE [acc EXCEPT !.intercepts = TRUE]
        ELSE [acc EXCEPT !.intercepts = TRUE,
                         !.damage = @ + fresh_targets[1]]
    ELSE IF symbol = "blank" THEN [acc EXCEPT !.blanks = @ + 1]
    ELSE IF symbol = "hitb" THEN [acc EXCEPT !.hitbs = @ + 1]
    ELSE IF symbol = "key" THEN [acc EXCEPT !.keys = @ + 1]
    ELSE [acc EXCEPT !.raised = "NotImplementedError"]

\* The loop body of a resolution that passes over a symbol it does not
\* know.
ResolveSymbolSkipsUnknown(acc, symbol, fresh_targets, convert_intercepts) ==
    IF acc.raised # "none" THEN acc
    ELSE IF symbol = "hit" THEN [acc EXCEPT !.hits = @ + 1]
    ELSE IF symbol = "flame" THEN [acc EXCEPT !.damage = @ + 1]
    ELSE IF symbol = "intercept" THEN
        IF acc.intercepts THEN acc
        ELSE IF convert_intercepts
        THEN IF fresh_targets = None
             THEN [acc EXCEPT !.intercepts = TRUE, !.raised = "ValueError"]
             ELSE [acc EXCEPT !.intercepts = TRUE,
                              !.damage = @ + fresh_targets[1]]
        ELSE [acc EXCEPT !.intercepts = TRUE]
    ELSE IF symbol = "blank" THEN [acc EXCEPT !.blanks = @ + 1]
    ELSE IF symbol = "hitb" THEN [acc EXCEPT !.hitbs = @ + 1]
    ELSE IF symbol = "key" THEN [acc EXCEPT !.keys = @ + 1]
    ELSE acc

\* A resolution in which an intercept met after damage was counted adds
\* no damage.
ResolveSymbolInterceptFirst(acc, symbol, fresh_targets, convert_intercepts) ==
    IF acc.raised # "none" THEN acc
    ELSE IF symbol = "hit" THEN [acc EXCEPT !.hits = @ + 1]
    ELSE IF symbol = "flame" THEN [acc EXCEPT !.damage = @ + 1]
    ELSE IF symbol = "intercept" THEN
        IF acc.intercepts THEN acc
        ELSE IF convert_intercepts
        THEN IF fresh_targets = None
             THEN [acc EXCEPT !.intercepts = TRUE, !.raised = "ValueError"]
             ELSE [acc EXCEPT !.intercepts = TRUE,
                              !.damage = IF @ = 0 THEN fresh_targets[1]
                                         ELSE @]
        ELSE [acc EXCEPT !.intercepts = TRUE]
    ELSE IF symbol = "blank" THEN [acc EXCEPT !.blanks = @ + 1]
    ELSE IF symbol = "hitb" THEN [acc EXCEPT !.hitbs = @ + 1]
    ELSE IF symbol = "key" THEN [acc EXCEPT !.keys = @ + 1]
    ELSE [acc EXCEPT !.raised = "NotImplementedError"]

\* One pass of the innermost loop body, lines 205-228.  Once an exception
\* is raised the remaining symbols are not processed.
ResolveSymbol(acc, symbol, fresh_targets, convert_intercepts) ==
    IF acc.raised # "none" THEN acc
    ELSE IF symbol = "hit" THEN [acc EXCEPT !.hits = @ + 1]
    ELSE IF symbol = "flame" THEN [acc EXCEPT !.damage = @ + 1]
    ELSE IF symbol = "intercept" THEN
        IF acc.intercepts THEN acc
        ELSE IF convert_intercepts
        THEN IF fresh_targets = None
             THEN [acc EXCEPT !.intercepts = TRUE, !.raised = "ValueError"]
             ELSE [acc EXCEPT !.intercepts = TRUE,
                              !.damage = @ + fresh_targets[1]]
        ELSE [acc EXCEPT !.intercepts = TRUE]
    ELSE IF symbol = "blank" THEN [acc EXCEPT !.blanks = @ + 1]
    ELSE IF symbol = "hitb" THEN [acc EXCEPT !.hitbs = @ + 1]
    ELSE IF symbol = "key" THEN [acc EXCEPT !.keys = @ + 1]
    ELSE [acc EXCEPT !.raised = "NotImplementedError"]

RECURSIVE ResolveSymbols(_, _, _, _)
\* The symbol loop, lines 202-228; an exception ends it.
ResolveSymbols(acc, symbols, fresh_targets, convert_intercepts) ==
    IF symbols = <<>> THEN acc
    ELSE LET next == ResolveSymbol(acc, Head(symbols), fresh_targets,
                                   convert_intercepts)
         IN  IF next.raised # "none" THEN next
             ELSE ResolveSymbols(next, Tail(symbols), fresh_targets,
                                 convert_intercepts)

\* str(n) of a nonnegative integer, as its decimal digits.
DigitChars == <<"0", "1", "2", "3", "4", "5", "6", "7", "8", "9">>

RECURSIVE Str(_)
Str(n) ==
    IF n < 10 THEN <<DigitChars[n + 1]>>
    ELSE Str(n \div 10) \o <<DigitChars[(n % 10) + 1]>>

\* f'{count}{letter}' appended to parts when count > 0.
Part(count, letter) == IF count > 0 THEN Str(count) \o <<letter>> ELSE <<>>

\* A roll_dict that holds the skirmish pool alone.
RollDictSkirmishOnly == {"skirmish"}

\* set(roll_dict.keys()): roll_dict is built with all three keys, line 176.
RollDictKeys == {"skirmish", "assault", "raid"}

\* A key construction that emits damage before building hits.
BuildKeyDamageFirst(acc, convert_intercepts) ==
    LET parts == Part(acc.hits, "H") \o Part(acc.damage, "D")
                     \o Part(acc.hitbs, "B") \o Part(acc.keys, "K")
        marked == IF acc.intercepts /\ ~convert_intercepts
                  THEN parts \o <<"I">> ELSE parts
    IN  IF marked # <<>> THEN marked ELSE <<"0">>

\* A key construction that marks every seen intercept, converted or not.
BuildKeyAlwaysMarks(acc, convert_intercepts) ==
    LET parts == Part(acc.hits, "H") \o Part(acc.hitbs, "B")
                     \o Part(acc.damage, "D") \o Part(acc.keys, "K")
        marked == IF acc.intercepts THEN parts \o <<"I">> ELSE parts
    IN  IF marked # <<>> THEN marked ELSE <<"0">>

\* A key construction that returns the empty string for an empty outcome.
BuildKeyNoZero(acc, convert_intercepts) ==
    LET parts == Part(acc.hits, "H") \o Part(acc.hitbs, "B")
                     \o Part(acc.damage, "D") \o Part(acc.keys, "K")
    IN  IF acc.intercepts /\ ~convert_intercepts
        THEN parts \o <<"I">> ELSE parts

\* The assertions of the key construction, lines 234 and 258.
KeyAssertionFails(acc) ==
    LET dice == RollDictKeys
    IN  \/ dice = {"skirmish"} /\ acc.intercepts # FALSE
        \/ /\ dice # {"skirmish"}
           /\ dice # {"raid"}
           /\ "raid" \notin dice
           /\ "assault" \notin dice

\* Key construction, lines 230-267.
BuildKey(acc, convert_intercepts) ==
    LET dice == RollDictKeys
        parts ==
            IF dice = {"skirmish"} THEN Part(acc.hits, "H")
            ELSE IF dice = {"raid"} THEN
                Part(acc.hitbs, "B") \o Part(acc.damage, "D")
                    \o Part(acc.keys, "K")
            ELSE IF "raid" \in dice THEN
                Part(acc.hits, "H") \o Part(acc.hitbs, "B")
                    \o Part(acc.damage, "D") \o Part(acc.keys, "K")
            ELSE Part(acc.hits, "H") \o Part(acc.damage, "D")
        marked == IF acc.intercepts /\ ~convert_intercepts
                  THEN parts \o <<"I">> ELSE parts
    IN  IF marked # <<>> THEN marked ELSE <<"0">>

\* The accumulator after the symbol loop.
Resolve(skirmish_combination, assault_combination, raid_combination, fresh_targets, convert_intercepts) ==
    ResolveSymbols(InitAccumulator,
                   RollSymbols(skirmish_combination, assault_combination,
                               raid_combination),
                   fresh_targets, convert_intercepts)

\* parse_dice: the exception raised ("none" when it returns), the key
\* returned and the accumulator the key was built from.
parse_dice(skirmish_combination, assault_combination, raid_combination, fresh_targets, convert_intercepts) ==
    LET acc == Resolve(skirmish_combination, assault_combination,
                       raid_combination, fresh_targets, convert_intercepts)
    IN  IF acc.raised # "none"
        THEN [raised |-> acc.raised, key |-> <<>>, acc |-> acc]
        ELSE IF KeyAssertionFails(acc)
        THEN [raised |-> "AssertionError", key |-> <<>>, acc |-> acc]
        ELSE [raised |-> "none",
              key |-> BuildKey(acc, convert_intercepts), acc |-> acc]

-----------------------------------------------------------------------------
(* Numbers.  The weights are Python floats from line 334 on (total /= ...);*)
(* factorials, powers and the expected grand total are Python ints.  Every *)
(* value is a whole number.  While all values stay below 2^31 they are kept*)
(* as integers, on which float arithmetic is exact (wide = FALSE).  With   *)
(* wide = TRUE a number is the little-endian sequence of its base-2^15     *)
(* digits, without leading zero digits, and every float operation rounds   *)
(* its exact result to the 53 significant bits of a float, ties to even.   *)

VARIABLE wide

LimbBits == 15
BigBase == 2 ^ LimbBits
DoubleMantissaBits == 53

RECURSIVE BigFromInt(_)
BigFromInt(n) ==
    IF n = 0 THEN <<>> ELSE <<n % BigBase>> \o BigFromInt(n \div BigBase)

RECURSIVE Normalize(_)
Normalize(a) ==
    IF a = <<>> THEN <<>>
    ELSE IF a[Len(a)] = 0 THEN Normalize(SubSeq(a, 1, Len(a) - 1))
    ELSE a

RECURSIVE BigAddCarry(_, _, _)
BigAddCarry(a, b, carry) ==
    IF a = <<>> /\ b = <<>>
    THEN IF carry = 0 THEN <<>> ELSE <<carry>>
    ELSE LET x == IF a = <<>> THEN 0 ELSE Head(a)
             y == IF b = <<>> THEN 0 ELSE Head(b)
             sum == x + y + carry
         IN  <<sum % BigBase>>
                 \o BigAddCarry(IF a = <<>> THEN <<>> ELSE Tail(a),
                                IF b = <<>> THEN <<>> ELSE Tail(b),
                                sum \div BigBase)

BigAdd(a, b) == BigAddCarry(a, b, 0)

RECURSIVE BigMulSmallCarry(_, _, _)
BigMulSmallCarry(a, m, carry) ==
    IF a = <<>> THEN BigFromInt(carry)
    ELSE LET p == Head(a) * m + carry
         IN  <<p % BigBase>> \o BigMulSmallCarry(Tail(a), m, p \div BigBase)

\* a * m for 0 <= m < BigBase
BigMulSmall(a, m) == IF m = 0 THEN <<>> ELSE BigMulSmallCarry(a, m, 0)

\* a * BigBase^n
ShiftLimbs(a, n) == IF a = <<>> THEN <<>> ELSE [i \in 1..n |-> 0] \o a

RECURSIVE BigMul(_, _)
BigMul(a, b) ==
    IF a = <<>> \/ b = <<>> THEN <<>>
    ELSE BigAdd(BigMulSmall(a, Head(b)), ShiftLimbs(BigMul(a, Tail(b)), 1))

RECURSIVE BigDivSmall(_, _)
\* quotient digits (leading zeros kept) and remainder of a by 0 < d <= BigBase
BigDivSmall(a, d) ==
    IF a = <<>> THEN [q |-> <<>>, r |-> 0]
    ELSE LET high == BigDivSmall(Tail(a), d)
             cur == high.r * BigBase + Head(a)
         IN  [q |-> <<cur \div d>> \o high.q, r |-> cur % d]

RECURSIVE BigDivFactorial(_, _)
\* a \div n!, by dividing by n, n - 1, ..., 2 in turn; zero stays zero
BigDivFactorial(a, n) ==
    IF n <= 1 \/ a = <<>> THEN a
    ELSE BigDivFactorial(Normalize(BigDivSmall(a, n).q), n - 1)

RECURSIVE BigPower(_, _)
\* base ^ exp by squaring, for 0 < base < BigBase
BigPower(base, exp) ==
    IF exp = 0 THEN <<1>>
    ELSE LET half == BigPower(base, exp \div 2)
             square == BigMul(half, half)
         IN  IF exp % 2 = 0 THEN square ELSE BigMulSmall(square, base)

RECURSIVE BigProduct(_, _)
\* lo * (lo + 1) * ... * hi by halving the range
BigProduct(lo, hi) ==
    IF lo > hi THEN <<1>>
    ELSE IF lo = hi THEN BigFromInt(lo)
    ELSE LET mid == (lo + hi) \div 2
         IN  BigMul(BigProduct(lo, mid), BigProduct(mid + 1, hi))

BigFactorial(n) == BigProduct(1, n)

BigLeq(a, b) ==
    \/ Len(a) < Len(b)
    \/ /\ Len(a) = Len(b)
       /\ \A i \in DOMAIN a : a[i] > b[i] => \E j \in DOMAIN a : j > i /\ a[j] < b[j]

BitLength(a) ==
    IF a = <<>> THEN 0
    ELSE (Len(a) - 1) * LimbBits
             + Cardinality({k \in 0..(LimbBits - 1) : 2 ^ k <= a[Len(a)]})

Bit(a, i) ==
    LET limb == i \div LimbBits + 1
    IN  IF limb > Len(a) THEN 0 ELSE (a[limb] \div 2 ^ (i % LimbBits)) % 2

ShiftRight(a, sh) ==
    Normalize(BigDivSmall(SubSeq(a, sh \div LimbBits + 1, Len(a)),
                          2 ^ (sh % LimbBits)).q)

ShiftLeft(a, sh) ==
    ShiftLimbs(BigMulSmall(a, 2 ^ (sh % LimbBits)), sh \div LimbBits)

\* The float nearest to the whole number a: round to nearest, ties to even.
RoundToDouble(a) ==
    IF BitLength(a) <= DoubleMantissaBits THEN a
    ELSE LET sh == BitLength(a) - DoubleMantissaBits
             q == ShiftRight(a, sh)
             sticky == \E j \in 0..(sh - 2) : Bit(a, j) = 1
             up == Bit(a, sh - 1) = 1 /\ (sticky \/ Bit(a, sh) = 1)
         IN  ShiftLeft(IF up THEN BigAdd(q, <<1>>) ELSE q, sh)

RECURSIVE factorial(_)
factorial(n) == IF n = 0 THEN 1 ELSE n * factorial(n - 1)

\* An int literal of the code.
Number(n) == IF wide THEN BigFromInt(n) ELSE n

\* math.factorial(n)
IntFactorial(n) == IF wide THEN BigFactorial(n) ELSE factorial(n)

\* base ** exp on ints
IntPower(base, exp) == IF wide THEN BigPower(base, exp) ELSE base ^ exp

\* a * b on ints
IntTimes(a, b) == IF wide THEN BigMul(a, b) ELSE a * b

\* total / factorial(count): the quotient is whole wherever total is the
\* unrounded partial quotient of a factorial, as it is for up to 22 dice.
DivideByFactorial(total, count) ==
    IF wide THEN RoundToDouble(BigDivFactorial(total, count))
    ELSE total \div factorial(count)

\* a * b with a float operand
FloatTimes(a, b) == IF wide THEN RoundToDouble(BigMul(a, b)) ELSE a * b

\* a + b with a float operand
FloatPlus(a, b) == IF wide THEN RoundToDouble(BigAdd(a, b)) ELSE a + b

\* a <= b
Leq(a, b) == IF wide THEN BigLeq(a, b) ELSE a <= b

-----------------------------------------------------------------------------
(* adjusted_multinomial_coefficient, arcs_funcs.py lines 326-341 *)

\* The keys of Counter(combination): the distinct faces of the combination.
DistinctFaces(combination) == {combination[i] : i \in DOMAIN combination}

RECURSIVE DivideByFactorials(_, _, _)
\* for count in combination_counts.values(): total /= factorial(count)
DivideByFactorials(total, combination, faces) ==
    IF faces = {} THEN total
    ELSE LET face == CHOOSE f \in faces : TRUE
         IN  DivideByFactorials(
                 DivideByFactorial(total, Counter(combination, face)),
                 combination, faces \ {face})

RECURSIVE MultiplyByFrequencies(_, _, _, _)
\* for face, count in combination_counts.items():
\*     total *= FACE_FREQUENCIES[dice_str][face] ** count
MultiplyByFrequencies(total, combination, faces, dice_str) ==
    IF faces = {} THEN total
    ELSE LET face == CHOOSE f \in faces : TRUE
         IN  MultiplyByFrequencies(
                 FloatTimes(total,
                            IntPower(FACE_FREQUENCIES(dice_str, face),
                                     Counter(combination, face))),
                 combination, faces \ {face}, dice_str)

\* The coefficient without the frequency of the reduced faces.
MultinomialCoefficientOnly(combination, dice_str) ==
    DivideByFactorials(IntFactorial(Len(combination)), combination,
                       DistinctFaces(combination))

adjusted_multinomial_coefficient(combination, dice_str) ==
    MultiplyByFrequencies(
        DivideByFactorials(IntFactorial(Len(combination)), combination,
                           DistinctFaces(combination)),
        combination, DistinctFaces(combination), dice_str)

-----------------------------------------------------------------------------
(* functools.lru_cache, as it decorates parse_dice (line 173, maxsize      *)
(* entries) and adjusted_multinomial_coefficient (line 326, maxsize=None). *)
(* A cache is the sequence of its entries [key, value], the least recently *)
(* used first.                                                             *)

\* A key of parse_dice calls that leaves out convert_intercepts.
ParseKeyWithoutConversion(call) ==
    <<call.skirmish, call.assault, call.raid, call.fresh_targets>>

\* The key of a call of parse_dice: its arguments, lines 174-175.
ParseKey(call) ==
    <<call.skirmish, call.assault, call.raid, call.fresh_targets,
      call.convert_intercepts>>

\* The key of a call of adjusted_multinomial_coefficient, line 327.
CoefficientKey(call) == <<call.combination, call.dice_str>>

CacheHas(cache, key) == \E i \in DOMAIN cache : cache[i].key = key

\* A lookup that takes the least recently used entry for the one asked for.
CacheIndexOldest(cache, key) == 1

CacheIndex(cache, key) == CHOOSE i \in DOMAIN cache : cache[i].key = key

\* A hit makes its entry the most recently used; a cache without maxsize
\* keeps no order of use.
Touch(cache, maxsize, i) ==
    IF maxsize = None THEN cache
    ELSE SubSeq(cache, 1, i - 1) \o SubSeq(cache, i + 1, Len(cache))
             \o <<cache[i]>>

\* A miss stores the value computed; a cache over its maxsize drops the
\* least recently used entry.
Store(cache, maxsize, key, value) ==
    LET added == Append(cache, [key |-> key, value |-> value])
    IN  IF maxsize # None /\ Len(added) > maxsize[1]
        THEN Tail(added) ELSE added

\* The call of a decorated function: the value of a hit comes from the
\* cache; on a miss the function runs, and what it returns is stored,
\* while an exception is stored nowhere.  computed is [raised, value].
CachedCall(cache, maxsize, key, computed) ==
    IF CacheHas(cache, key)
    THEN [raised |-> "none", value |-> cache[CacheIndex(cache, key)].value,
          hit |-> TRUE,
          cache |-> Touch(cache, maxsize, CacheIndex(cache, key))]
    ELSE IF computed.raised # "none"
    THEN [raised |-> computed.raised, value |-> None, hit |-> FALSE,
          cache |-> cache]
    ELSE [raised |-> "none", value |-> computed.value, hit |-> FALSE,
          cache |-> Store(cache, maxsize, key, computed.value)]

\* A call compute_probabilities or the brute force makes of a decorated
\* function.  A run in float arithmetic is followed with the caches left
\* out: it starts with both empty, and its sums read nothing a cache could
\* change.
Memoized(cache, maxsize, key, computed) ==
    IF wide
    THEN [raised |-> computed.raised, value |-> computed.value,
          hit |-> FALSE, cache |-> cache]
    ELSE CachedCall(cache, maxsize, key, computed)

\* What the body of parse_dice gives for a call, lines 176-267.
ParseDiceBody(call) ==
    LET result == parse_dice(call.skirmish, call.assault, call.raid,
                             call.fresh_targets, call.convert_intercepts)
    IN  [raised |-> result.raised, value |-> result.key]

\* What the body of adjusted_multinomial_coefficient gives for a call,
\* lines 328-341.
CoefficientBody(call) ==
    [raised |-> "none",
     value |-> adjusted_multinomial_coefficient(call.combination,
                                                call.dice_str)]

-----------------------------------------------------------------------------
(* The iterators of itertools, over positions 1..n of a pool *)

\* The faces a tuple of pool positions stands for.
Pick(pool, indices) == [i \in DOMAIN indices |-> pool[indices[i]]]

\* The first tuple of combinations_with_replacement(pool, r) and of
\* product(pool, repeat=r): r times the first position.
FirstIndices(r) == IF r = 0 THEN <<>> ELSE [i \in 1..r |-> 1]

\* Whether the iterator yields another tuple after this one.
HasNext(indices, n) == \E i \in DOMAIN indices : indices[i] # n

\* The rightmost position that can still advance.
Rightmost(indices, n) ==
    CHOOSE i \in DOMAIN indices :
        /\ indices[i] # n
        /\ \A j \in DOMAIN indices : j > i => indices[j] = n

\* combinations_with_replacement: advance the rightmost position that is
\* not at the end and set every position to its right to the same value.
NextCombination(indices, n) ==
    LET i == Rightmost(indices, n)
    IN  SubSeq(indices, 1, i - 1)
            \o [j \in 1..(Len(indices) - i + 1) |-> indices[i] + 1]

\* product: advance the rightmost position that is not at the end and
\* restart every position to its right.
NextProduct(indices, n) ==
    LET i == Rightmost(indices, n)
    IN  [j \in DOMAIN indices |->
            IF j < i THEN indices[j]
            ELSE IF j = i THEN indices[i] + 1 ELSE 1]

-----------------------------------------------------------------------------
(* Dictionaries in insertion order, and sorted() *)

\* A dict is the sequence of its items [key, count] in insertion order.
\* key in d
DictHas(d, key) == \E i \in DOMAIN d : d[i].key = key

\* The place of a key that is in d.
DictIndex(d, key) == CHOOSE i \in DOMAIN d : d[i].key = key

\* d.get(key, default)
DictGet(d, key, default) ==
    IF DictHas(d, key) THEN d[DictIndex(d, key)].count ELSE default

\* An assignment that adds an item whether or not the key is in d.
DictSetAlwaysAppends(d, key, count) ==
    Append(d, [key |-> key, count |-> count])

\* d[key] = count: an existing key keeps its place, a new key is appended.
DictSet(d, key, count) ==
    IF DictHas(d, key)
    THEN [d EXCEPT ![DictIndex(d, key)].count = count]
    ELSE Append(d, [key |-> key, count |-> count])

\* macrostate_counts[macrostate] += 1 on a collections.Counter
CountOne(d, key) == DictSet(d, key, DictGet(d, key, 0) + 1)

\* An accumulation that overwrites the weight of a key seen before.
AccumulateOverwrite(d, key, num_microstates) ==
    DictSet(d, key, num_microstates)

\* macrostates_dict[combination] =
\*     macrostates_dict.get(combination, 0) + num_microstates
Accumulate(d, key, num_microstates) ==
    DictSet(d, key, FloatPlus(DictGet(d, key, Number(0)), num_microstates))

\* The place of list[i] in the stable descending order of list.
RankDescending(list, i) ==
    Cardinality({j \in DOMAIN list :
                     IF j <= i THEN Leq(list[i], list[j])
                     ELSE ~Leq(list[j], list[i])})

\* The place of list[i] in the ascending order of list that puts equal
\* entries in the reverse of their order in list.
RankTiesReversed(list, i) ==
    Cardinality({j \in DOMAIN list :
                     IF j < i THEN ~Leq(list[i], list[j])
                     ELSE Leq(list[j], list[i])})

\* The place of list[i] in the stable ascending order of list: the number
\* of entries that come no later than it.
Rank(list, i) ==
    Cardinality({j \in DOMAIN list :
                     IF j <= i THEN Leq(list[j], list[i])
                     ELSE ~Leq(list[i], list[j])})

\* The ranks of all entries of list, as a sequence.
Ranks(list) == SubSeq([i \in DOMAIN list |-> Rank(list, i)], 1, Len(list))

\* The positions of list in stable ascending order of the entries.
SortedPositions(list) ==
    LET ranks == Ranks(list)
    IN  SubSeq([p \in DOMAIN list |-> CHOOSE i \in DOMAIN list : ranks[i] = p],
               1, Len(list))

\* A sort of numbers that puts the largest first.
SortedNumbersDescending(list) ==
    LET positions == SortedPositions(list)
    IN  [p \in DOMAIN list |-> list[positions[Len(list) - p + 1]]]

\* sorted(list of numbers)
SortedNumbers(list) ==
    LET positions == SortedPositions(list)
    IN  [p \in DOMAIN list |-> list[positions[p]]]

KeysOf(items) == [i \in DOMAIN items |-> items[i].key]
CountsOf(items) == [i \in DOMAIN items |-> items[i].count]

\* sorted(items, key=count): ascending, equal counts keep their order.
SortedByCount(items) ==
    LET positions == SortedPositions(CountsOf(items))
    IN  [p \in DOMAIN items |-> items[positions[p]]]

\* dict(zip(keys, values)): a later pair replaces an earlier one.
ZipDict(keys, values) ==
    LET n == IF Len(keys) < Len(values) THEN Len(keys) ELSE Len(values)
    IN  [k \in {keys[i] : i \in 1..n} |->
            values[CHOOSE i \in 1..n :
                       keys[i] = k /\ \A j \in 1..n : keys[j] = k => j <= i]]

-----------------------------------------------------------------------------
(* ThemeManager.parse_dice_label, arcs_funcs.py lines 106-110 *)

\* A scanner whose pattern leaves out the building-hit letter.
LabelLettersWithoutBuildings == {"H", "D", "K"}

\* The letters of the pattern (\d+)([HDBK]).
LabelLetters == {"H", "D", "B", "K"}

\* \d
IsDigit(c) == \E i \in DOMAIN DigitChars : DigitChars[i] = c

DigitValue(c) == (CHOOSE i \in DOMAIN DigitChars : DigitChars[i] = c) - 1

RECURSIVE ParseInt(_)
\* int(number) of a run of digits
ParseInt(digits) ==
    IF digits = <<>> THEN 0
    ELSE ParseInt(SubSeq(digits, 1, Len(digits) - 1)) * 10
             + DigitValue(digits[Len(digits)])

RECURSIVE DigitRunEnd(_, _)
\* The last position of the run of digits that holds position i: \d+ is
\* greedy.
DigitRunEnd(label, i) ==
    IF i < Len(label) /\ IsDigit(label[i + 1])
    THEN DigitRunEnd(label, i + 1)
    ELSE i

RECURSIVE FindAll(_, _)
\* re.findall from position i on: the matches, left to right and not
\* overlapping, as <<number, letter>>.  A run of digits matches only when a
\* letter of the pattern follows its last digit; otherwise the scan moves on
\* by one position.
FindAll(label, i) ==
    IF i > Len(label) THEN <<>>
    ELSE IF ~IsDigit(label[i]) THEN FindAll(label, i + 1)
    ELSE LET j == DigitRunEnd(label, i)
         IN  IF j < Len(label) /\ label[j + 1] \in LabelLetters
             THEN << <<SubSeq(label, i, j), label[j + 1]>> >>
                      \o FindAll(label, j + 2)
             ELSE FindAll(label, i + 1)

RECURSIVE DictOfMatches(_, _)
\* {letter: int(number) for number, letter in matches}
DictOfMatches(d, matches) ==
    IF matches = <<>> THEN d
    ELSE DictOfMatches(DictSet(d, Head(matches)[2], ParseInt(Head(matches)[1])),
                       Tail(matches))

parse_dice_label(label) == DictOfMatches(<<>>, FindAll(label, 1))

\* hits, damage, buildings and keys as the callers read them off the parsed
\* label: label_dict.get(letter, 0), lines 297-300 and 471-474.
LabelFields(label) ==
    LET label_dict == parse_dice_label(label)
    IN  [hits |-> DictGet(label_dict, "H", 0),
         damage |-> DictGet(label_dict, "D", 0),
         building_hits |-> DictGet(label_dict, "B", 0),
         keys |-> DictGet(label_dict, "K", 0)]

-----------------------------------------------------------------------------
(* evaluate_truth_table and parse_label_for_probability, arcs_funcs.py     *)
(* lines 270-323                                                           *)

\* The decimals of f'{result:.4f}', line 321, and the unit 10^-4 the
\* probabilities of a query are counted in.
ProbDigits == 4
ProbUnit == 10000

\* The bounds a caller of the two functions sets: the eight the tests and
\* streamlit_app.py pass.
BoundNames ==
    {"min_hits", "max_hits", "min_damage", "max_damage", "min_keys",
     "max_keys", "min_building_hits", "max_building_hits"}

\* The bounds the two functions have a parameter for, lines 270-271 and
\* 291-292.
BoundParameters ==
    {"min_hits", "max_damage", "min_keys", "min_building_hits",
     "max_building_hits"}

\* The binding of a call that gives every bound parameter its bound (None
\* for a bound not supplied) and passes a supplied bound that has no
\* parameter by its name: an unexpected keyword argument is a TypeError.
BindBounds(bounds) ==
    IF \E name \in BoundNames \ BoundParameters : bounds[name] # None
    THEN "TypeError" ELSE "none"

\* lines 270-288
evaluate_truth_table(hits, damage, buildings, keys, min_hits, max_damage, min_keys, min_building_hits, max_building_hits) ==
    IF min_hits # None /\ hits < min_hits[1] THEN FALSE
    ELSE IF max_damage # None /\ damage > max_damage[1] THEN FALSE
    ELSE IF min_keys # None /\ keys < min_keys[1] THEN FALSE
    ELSE IF min_building_hits # None /\ buildings < min_building_hits[1]
    THEN FALSE
    ELSE IF max_building_hits # None /\ buildings > max_building_hits[1]
    THEN FALSE
    ELSE TRUE

\* A pairing that stops one pair before the shorter list ends.
ZipLenOneShort(labels, probs) ==
    IF labels = <<>> \/ probs = <<>> THEN 0
    ELSE IF Len(labels) <= Len(probs) THEN Len(labels) - 1
    ELSE Len(probs) - 1

\* zip(labels, probs) has as many pairs as the shorter of the two.
ZipLen(labels, probs) ==
    IF Len(labels) <= Len(probs) THEN Len(labels) ELSE Len(probs)

RECURSIVE MatchedSum(_, _, _, _, _, _, _, _, _)
\* The loop of lines 294-304 from pair i on, result being the sum so far;
\* probabilities are counted in units of 1/ProbUnit.
MatchedSum(labels, probs, i, result, min_hits, max_damage, min_keys, min_building_hits, max_building_hits) ==
    IF i > ZipLen(labels, probs) THEN result
    ELSE LET label_dict == parse_dice_label(labels[i])
             hits == DictGet(label_dict, "H", 0)
             damage == DictGet(label_dict, "D", 0)
             buildings == DictGet(label_dict, "B", 0)
             keys == DictGet(label_dict, "K", 0)
         IN  MatchedSum(labels, probs, i + 1,
                        IF evaluate_truth_table(hits, damage, buildings,
                                                keys, min_hits, max_damage,
                                                min_keys, min_building_hits,
                                                max_building_hits)
                        THEN result + probs[i] ELSE result,
                        min_hits, max_damage, min_keys, min_building_hits,
                        max_building_hits)

\* The phrase of one bound, or nothing when the bound is None.
Condition(bound, before, after) ==
    IF bound # None THEN << <<before>> \o Str(bound[1]) \o <<after>> >>
    ELSE <<>>

\* The list conditions of lines 306-318; a text is the sequence of its
\* pieces.
Conditions(min_hits, max_damage, min_keys, min_building_hits, max_building_hits) ==
    Condition(min_hits, "hitting at least ", " times")
        \o Condition(max_damage, "taking no more than ", " damage")
        \o Condition(min_keys, "getting at least ", " keys")
        \o Condition(min_building_hits, "hitting buildings at least ",
                     " times")
        \o Condition(max_building_hits, "hitting buildings no more than ",
                     " times")

RECURSIVE Join(_, _)
\* separator.join(texts)
Join(separator, texts) ==
    IF texts = <<>> THEN <<>>
    ELSE IF Len(texts) = 1 THEN Head(texts)
    ELSE Head(texts) \o <<separator>> \o Join(separator, Tail(texts))

\* f'{result:.4f}' of a probability of result / ProbUnit: the whole part,
\* the point and four decimals.
FormatProbability(result) ==
    LET decimals == Str(result % ProbUnit)
    IN  Str(result \div ProbUnit) \o <<".">>
            \o [i \in 1..(ProbDigits - Len(decimals)) |-> "0"] \o decimals

\* lines 291-323: the sum, the list of conditions and the text returned.
parse_label_for_probability(labels, probs, min_hits, max_damage, min_keys, min_building_hits, max_building_hits) ==
    LET result == MatchedSum(labels, probs, 1, 0, min_hits, max_damage,
                             min_keys, min_building_hits, max_building_hits)
        conditions == Conditions(min_hits, max_damage, min_keys,
                                 min_building_hits, max_building_hits)
        condition_str == Join(" and ", conditions)
    IN  [result |-> result, conditions |-> conditions,
         result_str |-> <<"Probability of ">> \o condition_str
                            \o <<" is ">> \o FormatProbability(result)]

-----------------------------------------------------------------------------
(* get_joint_prob_table, arcs_funcs.py lines 456-477 *)

\* A table whose rows take the probabilities from the last to the first.
JointProbRowsReversed(macrostates, probs) ==
    [i \in 1..ZipLen(macrostates, probs) |->
        LET label_dict == parse_dice_label(macrostates[i])
        IN  [hits |-> DictGet(label_dict, "H", 0),
             damage |-> DictGet(label_dict, "D", 0),
             building_hits |-> DictGet(label_dict, "B", 0),
             keys |-> DictGet(label_dict, "K", 0),
             prob |-> probs[Len(probs) - i + 1]]]

\* A table that reads the K count into building_hits and the B count into
\* keys.
JointProbRowsSwapped(macrostates, probs) ==
    [i \in 1..ZipLen(macrostates, probs) |->
        LET label_dict == parse_dice_label(macrostates[i])
        IN  [hits |-> DictGet(label_dict, "H", 0),
             damage |-> DictGet(label_dict, "D", 0),
             building_hits |-> DictGet(label_dict, "K", 0),
             keys |-> DictGet(label_dict, "B", 0),
             prob |-> probs[i]]]

\* The rows appended to table in the loop over zip(macrostates, probs),
\* lines 467-476.
JointProbRows(macrostates, probs) ==
    [i \in 1..ZipLen(macrostates, probs) |->
        LET label_dict == parse_dice_label(macrostates[i])
        IN  [hits |-> DictGet(label_dict, "H", 0),
             damage |-> DictGet(label_dict, "D", 0),
             building_hits |-> DictGet(label_dict, "B", 0),
             keys |-> DictGet(label_dict, "K", 0),
             prob |-> probs[i]]]

-----------------------------------------------------------------------------
(* State *)

VARIABLES
    num_skirmish, num_assault, num_raid,  \* the configuration
    fresh_targets, convert_intercepts,
    pc,                    \* where compute_probabilities is
    skirmish_combination,  \* pool positions of the three loops of
    assault_combination,   \*   compute_probabilities
    raid_combination,
    macrostates_dict, total_states, loop_count,
    sorted_macrostates, sorted_probs,     \* what compute_probabilities returns
    parsed,                \* the last call of parse_dice and its result
    weighed,               \* the last combinations weighed in the loop
    bf_pc,                 \* where brute_force_all_microstates is
    skirmish_rolls, assault_rolls, raid_rolls,
    macrostate_counts, total_microstates,
    bf_macrostates, bf_probs,             \* what the brute force returns
    query,                 \* a call of one of the two query functions
    answer,                \* and how it ended
    program, at,           \* calls of the memoized functions, and how many
                           \*   of them have been made
    parse_cache,           \* the cache of parse_dice
    coefficient_cache,     \* the cache of adjusted_multinomial_coefficient
    results,               \* how the calls made of the program ended
    multi_roll_mode,       \* the Multi-Roll Mode checkbox of the app
    rolls,                 \* st.session_state.rolls, None while not set
    rolls_before,          \*   and what it was when the last run began
    event,                 \* the widget that set off the last run
    args,                  \* the arguments of a run of arcs_bc.py
    script_pc,             \*   where that run is
    roll_hist,             \*   its histogram, outcome -> samples
    drawn,                 \*   the samples drawn so far
    printed                \*   and the probability it printed, if any

config == <<num_skirmish, num_assault, num_raid, fresh_targets, convert_intercepts>>
optimized == <<pc, skirmish_combination, assault_combination, raid_combination, macrostates_dict, total_states, loop_count, sorted_macrostates, sorted_probs>>
brute == <<bf_pc, skirmish_rolls, assault_rolls, raid_rolls, macrostate_counts, total_microstates, bf_macrostates, bf_probs>>
queries == <<query, answer>>
memo == <<program, at, parse_cache, coefficient_cache, results>>
session == <<multi_roll_mode, rolls, rolls_before, event>>
script == <<args, script_pc, roll_hist, drawn, printed>>
vars == <<config, optimized, brute, parsed, weighed, wide, queries, memo, session, script>>

FreshTargetValues == {None} \cup {Some(n) : n \in 0..MaxFresh}

NotCalled == [called |-> FALSE]

\* The record of one call of parse_dice.
Call(skirmish, assault, raid, result) ==
    [called |-> TRUE, skirmish |-> skirmish, assault |-> assault,
     raid |-> raid, raised |-> result.raised, key |-> result.key,
     acc |-> result.acc]

\* The app is in single-roll mode and has no roll list.
NoSession ==
    /\ multi_roll_mode = FALSE
    /\ rolls = None
    /\ rolls_before = None
    /\ event = "none"

\* The script arcs_bc.py is not run.
NoScript ==
    /\ args = None
    /\ script_pc = "idle"
    /\ roll_hist = <<>>
    /\ drawn = 0
    /\ printed = None

\* No calls of the memoized functions are made on their own, the app is
\* not used and the script is not run.
NoProgram ==
    /\ program = <<>>
    /\ at = 0
    /\ parse_cache = <<>>
    /\ coefficient_cache = <<>>
    /\ results = <<>>
    /\ NoSession
    /\ NoScript

\* The state on entry of compute_probabilities, lines 346-350, with the
\* three loops at their first combination; the brute force not yet begun.
Entered ==
    /\ pc = "loop"
    /\ skirmish_combination = FirstIndices(num_skirmish)
    /\ assault_combination = FirstIndices(num_assault)
    /\ raid_combination = FirstIndices(num_raid)
    /\ macrostates_dict = <<>>
    /\ total_states = Number(0)
    /\ loop_count = 0
    /\ sorted_macrostates = <<>>
    /\ sorted_probs = <<>>
    /\ parsed = NotCalled
    /\ weighed = NotCalled
    /\ bf_pc = "loop"
    /\ skirmish_rolls = FirstIndices(num_skirmish)
    /\ assault_rolls = FirstIndices(num_assault)
    /\ raid_rolls = FirstIndices(num_raid)
    /\ macrostate_counts = <<>>
    /\ total_microstates = 0
    /\ bf_macrostates = <<>>
    /\ bf_probs = <<>>

\* compute_probabilities is entered with any configuration of at most
\* MaxTotalDice dice.
Init ==
    /\ num_skirmish \in 0..MaxTotalDice
    /\ num_assault \in 0..MaxTotalDice
    /\ num_raid \in 0..MaxTotalDice
    /\ num_skirmish + num_assault + num_raid <= MaxTotalDice
    /\ fresh_targets \in FreshTargetValues
    /\ convert_intercepts \in BOOLEAN
    /\ wide = FALSE
    /\ query = NotCalled
    /\ answer = NotCalled
    /\ NoProgram
    /\ Entered

\* compute_probabilities(0, WideAssault, 0) with the default fresh_targets
\* and convert_intercepts, in float arithmetic.
InitWide ==
    /\ num_skirmish = 0
    /\ num_assault = WideAssault
    /\ num_raid = 0
    /\ fresh_targets = Some(0)
    /\ convert_intercepts = FALSE
    /\ wide = TRUE
    /\ query = NotCalled
    /\ answer = NotCalled
    /\ NoProgram
    /\ Entered

-----------------------------------------------------------------------------
(* compute_probabilities, arcs_funcs.py lines 344-389 *)

\* The locals of compute_probabilities while its loops run.
LoopState ==
    [pc |-> pc, skirmish_combination |-> skirmish_combination,
     assault_combination |-> assault_combination,
     raid_combination |-> raid_combination,
     macrostates_dict |-> macrostates_dict, total_states |-> total_states,
     loop_count |-> loop_count, parsed |-> parsed, weighed |-> weighed,
     parse_cache |-> parse_cache, coefficient_cache |-> coefficient_cache]

\* The call compute_probabilities and the brute force make of parse_dice,
\* lines 366-368, through its cache.  acc is the accumulator the body ends
\* with for these arguments, whether or not the call ran it.
ParseDiceCall(cache, skirmish, assault, raid) ==
    LET call == [skirmish |-> skirmish, assault |-> assault, raid |-> raid,
                 fresh_targets |-> fresh_targets,
                 convert_intercepts |-> convert_intercepts]
        body == parse_dice(skirmish, assault, raid, fresh_targets,
                           convert_intercepts)
        outcome == Memoized(cache, Some(LruSize), ParseKey(call),
                            [raised |-> body.raised, value |-> body.key])
    IN  [raised |-> outcome.raised,
         key |-> IF outcome.raised = "none" THEN outcome.value ELSE body.key,
         acc |-> body.acc, cache |-> outcome.cache]

\* The call compute_probabilities makes of adjusted_multinomial_coefficient,
\* lines 354, 360 and 373, through its cache.
CoefficientCall(cache, combination, dice_str) ==
    LET call == [combination |-> combination, dice_str |-> dice_str]
    IN  Memoized(cache, None, CoefficientKey(call), CoefficientBody(call))

\* One pass of the innermost loop body, lines 351-378, and the step of the
\* three nested iterators to the next combination.
LoopBody(s) ==
    LET skirmish == Pick(SKIRMISH_DICE, s.skirmish_combination)
        assault == Pick(UNIQUE_ASSAULT_DICE, s.assault_combination)
        raid == Pick(UNIQUE_RAID_DICE, s.raid_combination)
        skirmish_call ==
            CoefficientCall(s.coefficient_cache, skirmish, "skirmish")
        assault_call ==
            CoefficientCall(skirmish_call.cache, assault, "assault")
        combination == ParseDiceCall(s.parse_cache, skirmish, assault, raid)
        raid_call == CoefficientCall(assault_call.cache, raid, "raid")
        skirmish_coefficient == skirmish_call.value
        assault_coefficient == assault_call.value
        raid_coefficient == raid_call.value
        num_microstates ==
            FloatTimes(FloatTimes(skirmish_coefficient, assault_coefficient),
                       raid_coefficient)
        called == [s EXCEPT !.parsed = Call(skirmish, assault, raid,
                                            combination),
                            !.parse_cache = combination.cache,
                            !.coefficient_cache = assault_call.cache]
        counted ==
            [called EXCEPT
                !.weighed =
                    [called |-> TRUE, skirmish |-> skirmish,
                     assault |-> assault, raid |-> raid,
                     skirmish_coefficient |-> skirmish_coefficient,
                     assault_coefficient |-> assault_coefficient,
                     raid_coefficient |-> raid_coefficient,
                     num_microstates |-> num_microstates],
                !.coefficient_cache = raid_call.cache,
                !.macrostates_dict =
                    Accumulate(@, combination.key, num_microstates),
                !.total_states = FloatPlus(@, num_microstates),
                !.loop_count = @ + 1]
    IN  IF combination.raised # "none" THEN [called EXCEPT !.pc = "raised"]
        ELSE IF HasNext(s.raid_combination, Len(UNIQUE_RAID_DICE))
        THEN [counted EXCEPT
                 !.raid_combination =
                     NextCombination(@, Len(UNIQUE_RAID_DICE))]
        ELSE IF HasNext(s.assault_combination, Len(UNIQUE_ASSAULT_DICE))
        THEN [counted EXCEPT
                 !.raid_combination = FirstIndices(num_raid),
                 !.assault_combination =
                     NextCombination(@, Len(UNIQUE_ASSAULT_DICE))]
        ELSE IF HasNext(s.skirmish_combination, Len(SKIRMISH_DICE))
        THEN [counted EXCEPT
                 !.raid_combination = FirstIndices(num_raid),
                 !.assault_combination = FirstIndices(num_assault),
                 !.skirmish_combination =
                     NextCombination(@, Len(SKIRMISH_DICE))]
        ELSE [counted EXCEPT !.pc = "loop_end"]

RECURSIVE Passes(_, _)
\* Up to n consecutive passes of the loop body; the loop stops when its
\* iterators are exhausted or parse_dice raises.
Passes(s, n) ==
    IF n = 0 \/ s.pc # "loop" THEN s ELSE Passes(LoopBody(s), n - 1)

\* The passes of the loop body one step covers: the loops run without
\* interruption, and a run in float arithmetic is followed WideStride
\* passes at a time.
Stride == IF wide THEN WideStride ELSE 1

\* The next Stride passes of the loops of compute_probabilities.
LoopStep ==
    /\ pc = "loop"
    /\ \E s \in {Passes(LoopState, Stride)} :
           /\ pc' = s.pc
           /\ skirmish_combination' = s.skirmish_combination
           /\ assault_combination' = s.assault_combination
           /\ raid_combination' = s.raid_combination
           /\ macrostates_dict' = s.macrostates_dict
           /\ total_states' = s.total_states
           /\ loop_count' = s.loop_count
           /\ parsed' = s.parsed
           /\ weighed' = s.weighed
           /\ parse_cache' = s.parse_cache
           /\ coefficient_cache' = s.coefficient_cache
           /\ results' = IF at > 0 /\ s.pc = "raised"
                         THEN Append(results, [raised |-> s.parsed.raised])
                         ELSE results
    /\ UNCHANGED <<session, script, config, sorted_macrostates, sorted_probs, brute, wide,
                   queries, program, at>>

\* 2**num_skirmish * 6**(num_assault + num_raid), line 380
ExpectedTotal ==
    IntTimes(IntPower(2, num_skirmish), IntPower(6, num_assault + num_raid))

\* The assertion on the grand total, the two sorts and the return,
\* lines 380-389.
Finish ==
    /\ pc = "loop_end"
    /\ IF total_states # ExpectedTotal
       THEN /\ pc' = "assert_failed"
            /\ results' = IF at > 0
                          THEN Append(results, [raised |-> "AssertionError"])
                          ELSE results
            /\ UNCHANGED <<sorted_macrostates, sorted_probs>>
       ELSE /\ sorted_macrostates' = KeysOf(SortedByCount(macrostates_dict))
            /\ sorted_probs' = SortedNumbers(CountsOf(macrostates_dict))
            /\ results' =
                   IF at > 0
                   THEN Append(results,
                               [raised |-> "none",
                                macrostates |->
                                    KeysOf(SortedByCount(macrostates_dict)),
                                probs |->
                                    SortedNumbers(
                                        CountsOf(macrostates_dict))])
                   ELSE results
            /\ pc' = "returned"
    /\ UNCHANGED <<session, script, config, skirmish_combination, assault_combination,
                   raid_combination, macrostates_dict, total_states,
                   loop_count, brute, parsed, weighed, wide, queries,
                   program, at, parse_cache, coefficient_cache>>

-----------------------------------------------------------------------------
(* brute_force_all_microstates, test_microstate_validation.py lines 19-56, *)
(* called with the configuration compute_probabilities returned for        *)

\* One ordered roll of all dice, lines 33-45.
BruteStep ==
    /\ pc = "returned"
    /\ bf_pc = "loop"
    /\ LET skirmish == Pick(SKIRMISH_DICE, skirmish_rolls)
           assault == Pick(ASSAULT_DICE, assault_rolls)
           raid == Pick(RAID_DICE, raid_rolls)
           macrostate == ParseDiceCall(parse_cache, skirmish, assault, raid)
       IN  /\ parsed' = Call(skirmish, assault, raid, macrostate)
           /\ parse_cache' = macrostate.cache
           /\ IF macrostate.raised # "none"
              THEN /\ bf_pc' = "raised"
                   /\ UNCHANGED <<skirmish_rolls, assault_rolls, raid_rolls,
                                  macrostate_counts, total_microstates>>
              ELSE /\ macrostate_counts' =
                          CountOne(macrostate_counts, macrostate.key)
                   /\ total_microstates' = total_microstates + 1
                   /\ IF HasNext(raid_rolls, Len(RAID_DICE))
                      THEN /\ raid_rolls' =
                                  NextProduct(raid_rolls, Len(RAID_DICE))
                           /\ bf_pc' = "loop"
                           /\ UNCHANGED <<skirmish_rolls, assault_rolls>>
                      ELSE IF HasNext(assault_rolls, Len(ASSAULT_DICE))
                      THEN /\ raid_rolls' = FirstIndices(num_raid)
                           /\ assault_rolls' =
                                  NextProduct(assault_rolls,
                                              Len(ASSAULT_DICE))
                           /\ bf_pc' = "loop"
                           /\ UNCHANGED skirmish_rolls
                      ELSE IF HasNext(skirmish_rolls, Len(SKIRMISH_DICE))
                      THEN /\ raid_rolls' = FirstIndices(num_raid)
                           /\ assault_rolls' = FirstIndices(num_assault)
                           /\ skirmish_rolls' =
                                  NextProduct(skirmish_rolls,
                                              Len(SKIRMISH_DICE))
                           /\ bf_pc' = "loop"
                      ELSE /\ bf_pc' = "loop_end"
                           /\ UNCHANGED <<skirmish_rolls, assault_rolls,
                                          raid_rolls>>
    /\ UNCHANGED <<session, script, config, optimized, bf_macrostates, bf_probs, weighed,
                   wide, queries, program, at, coefficient_cache, results>>

\* The sort of the (macrostate, probability) pairs and the return,
\* lines 47-56.
BruteFinish ==
    /\ bf_pc = "loop_end"
    /\ bf_macrostates' = KeysOf(SortedByCount(macrostate_counts))
    /\ bf_probs' = CountsOf(SortedByCount(macrostate_counts))
    /\ bf_pc' = "returned"
    /\ UNCHANGED <<session, script, config, optimized, skirmish_rolls, assault_rolls,
                   raid_rolls, macrostate_counts, total_microstates, parsed,
                   weighed, wide, queries, memo>>

Next == LoopStep \/ Finish \/ BruteStep \/ BruteFinish

Spec == Init /\ [][Next]_vars

\* The run of compute_probabilities alone.
NextWide == LoopStep \/ Finish

SpecWide == InitWide /\ [][NextWide]_vars

\* The table get_joint_prob_table builds from what its call of
\* compute_probabilities returned, lines 463-477.
get_joint_prob_table == JointProbRows(sorted_macrostates, sorted_probs)

-----------------------------------------------------------------------------
(* Calls of evaluate_truth_table and parse_label_for_probability on their  *)
(* own, compute_probabilities not being run                                *)

\* A bound is None when it is not supplied.
OptionalBounds == {None} \cup {Some(n) : n \in 1..MaxBound}

\* What a caller supplies for the eight bounds.
BoundRecords == [BoundNames -> OptionalBounds]

\* The labels and probabilities the queries are made on: distributions in
\* units of 1/ProbUnit, the empty one among them.
QueryTables ==
    { << <<>>, <<>> >>,
      << << <<"1", "H">>, <<"0">>, <<"2", "H">> >>, <<4000, 3000, 3000>> >>,
      << << <<"2", "H", "1", "D">>, <<"1", "H">> >>, <<6000, 4000>> >>,
      << << <<"2", "H", "1", "D", "1", "B", "1", "K">> >>, <<10000>> >>,
      << << <<"1", "K">>, <<"2", "K">>, <<"3", "K">> >>,
         <<4000, 4000, 2000>> >>,
      << << <<"1", "D">>, <<"2", "D">>, <<"1", "B", "2", "K">>,
            <<"2", "B">> >>,
         <<2500, 2500, 2500, 2500>> >>,
      << << <<"1", "H", "2", "B", "I">>, <<"1", "2", "H">>,
            <<"1", "H", "2", "D", "1", "K">> >>,
         <<5000, 125, 4875>> >> }

TruthQueries ==
    [op : {"evaluate_truth_table"}, hits : 0..MaxCount,
     damage : 0..MaxCount, buildings : 0..MaxCount, keys : 0..MaxCount,
     bounds : BoundRecords]

LabelQueries ==
    {[op |-> "parse_label_for_probability", labels |-> table[1],
      probs |-> table[2], bounds |-> bounds] :
        table \in QueryTables, bounds \in BoundRecords}

\* Nothing of compute_probabilities or of the brute force is running.
Idle ==
    /\ num_skirmish = 0
    /\ num_assault = 0
    /\ num_raid = 0
    /\ fresh_targets = Some(0)
    /\ convert_intercepts = FALSE
    /\ wide = FALSE
    /\ pc = "idle"
    /\ skirmish_combination = <<>>
    /\ assault_combination = <<>>
    /\ raid_combination = <<>>
    /\ macrostates_dict = <<>>
    /\ total_states = Number(0)
    /\ loop_count = 0
    /\ sorted_macrostates = <<>>
    /\ sorted_probs = <<>>
    /\ parsed = NotCalled
    /\ weighed = NotCalled
    /\ bf_pc = "idle"
    /\ skirmish_rolls = <<>>
    /\ assault_rolls = <<>>
    /\ raid_rolls = <<>>
    /\ macrostate_counts = <<>>
    /\ total_microstates = 0
    /\ bf_macrostates = <<>>
    /\ bf_probs = <<>>

\* One of the two functions is about to be called.
InitQuery ==
    /\ Idle
    /\ NoProgram
    /\ query \in TruthQueries \cup LabelQueries
    /\ answer = NotCalled

\* How a call ended: the exception raised, or the value returned.
Raised(exception) == [called |-> TRUE, raised |-> exception]
Returned(value) == [called |-> TRUE, raised |-> "none", value |-> value]

\* The call of evaluate_truth_table, lines 270-288.
EvaluateTruthTable ==
    /\ query.op = "evaluate_truth_table"
    /\ ~answer.called
    /\ answer' =
           IF BindBounds(query.bounds) # "none"
           THEN Raised(BindBounds(query.bounds))
           ELSE Returned(evaluate_truth_table(
                             query.hits, query.damage, query.buildings,
                             query.keys, query.bounds["min_hits"],
                             query.bounds["max_damage"],
                             query.bounds["min_keys"],
                             query.bounds["min_building_hits"],
                             query.bounds["max_building_hits"]))
    /\ UNCHANGED <<session, script, config, optimized, brute, parsed, weighed, wide, query,
                   memo>>

\* The call of parse_label_for_probability, lines 291-323.
ParseLabelForProbability ==
    /\ query.op = "parse_label_for_probability"
    /\ ~answer.called
    /\ answer' =
           IF BindBounds(query.bounds) # "none"
           THEN Raised(BindBounds(query.bounds))
           ELSE Returned(parse_label_for_probability(
                             query.labels, query.probs,
                             query.bounds["min_hits"],
                             query.bounds["max_damage"],
                             query.bounds["min_keys"],
                             query.bounds["min_building_hits"],
                             query.bounds["max_building_hits"]))
    /\ UNCHANGED <<session, script, config, optimized, brute, parsed, weighed, wide, query,
                   memo>>

NextQuery == EvaluateTruthTable \/ ParseLabelForProbability

SpecQuery == InitQuery /\ [][NextQuery]_vars

-----------------------------------------------------------------------------
(* Calls of the memoized parse_dice and adjusted_multinomial_coefficient   *)
(* on their own, and of compute_probabilities, one after another in one    *)
(* process                                                                 *)

\* A face with a symbol that parse_dice does not know.
ForeignFace == <<"hit", "shield">>

\* The tuples of at most n faces.
TuplesUpTo(faces, n) == UNION {[1..k -> faces] : k \in 0..n}

FacesOf(dice) == {dice[i] : i \in DOMAIN dice}

\* Single calls of parse_dice with any faces, the foreign one among them,
\* up to MaxDirect faces in a pool and one more than that in all, and of
\* adjusted_multinomial_coefficient.
DirectCalls ==
    {call \in
         [op : {"parse_dice"},
          skirmish : TuplesUpTo(FacesOf(SKIRMISH_DICE) \cup {ForeignFace},
                                MaxDirect),
          assault : TuplesUpTo(FacesOf(ASSAULT_DICE) \cup {ForeignFace},
                               MaxDirect),
          raid : TuplesUpTo(FacesOf(RAID_DICE) \cup {ForeignFace},
                            MaxDirect),
          fresh_targets : FreshTargetValues, convert_intercepts : BOOLEAN] :
         Len(call.skirmish) + Len(call.assault) + Len(call.raid)
             <= MaxDirect + 1}
    \cup [op : {"adjusted_multinomial_coefficient"},
          combination : TuplesUpTo(FacesOf(ASSAULT_DICE), MaxDirect),
          dice_str : {"assault", "raid"}]

\* The calls the programs of several calls are made of.
MemoCalls ==
    [op : {"parse_dice"}, skirmish : {<<>>}, assault : {<<>>},
     raid : {<< <<"intercept">> >>}, fresh_targets : {Some(MaxFresh)},
     convert_intercepts : BOOLEAN]
    \cup [op : {"compute_probabilities"}, num_skirmish : {0},
          num_assault : {0}, num_raid : {1},
          fresh_targets : {Some(MaxFresh)}, convert_intercepts : BOOLEAN]
    \cup {[op |-> "parse_dice", skirmish |-> << <<"hit">> >>,
           assault |-> <<>>, raid |-> <<>>, fresh_targets |-> Some(0),
           convert_intercepts |-> FALSE],
          [op |-> "adjusted_multinomial_coefficient",
           combination |-> << <<"hitb", "flame">> >>, dice_str |-> "raid"]}

\* A program is one direct call, or up to MaxCalls calls of MemoCalls.
Programs ==
    {<<call>> : call \in DirectCalls}
        \cup UNION {[1..n -> MemoCalls] : n \in 1..MaxCalls}

\* Both caches are empty and no call of the program has been made.
InitCalls ==
    /\ Idle
    /\ query = NotCalled
    /\ answer = NotCalled
    /\ program \in Programs
    /\ at = 0
    /\ parse_cache = <<>>
    /\ coefficient_cache = <<>>
    /\ results = <<>>
    /\ NoSession
    /\ NoScript

\* How a call through a cache ended.
Answer(outcome) ==
    [called |-> TRUE, raised |-> outcome.raised, value |-> outcome.value,
     hit |-> outcome.hit]

\* No call of compute_probabilities is running.
Between == pc \in {"idle", "returned", "raised", "assert_failed"}

\* The next call of the program is a call of parse_dice, line 173.
CallParseDice ==
    /\ Between
    /\ at < Len(program)
    /\ program[at + 1].op = "parse_dice"
    /\ \E outcome \in {CachedCall(parse_cache, Some(LruSize),
                                  ParseKey(program[at + 1]),
                                  ParseDiceBody(program[at + 1]))} :
           /\ answer' = Answer(outcome)
           /\ results' = Append(results, Answer(outcome))
           /\ parse_cache' = outcome.cache
    /\ query' = program[at + 1]
    /\ at' = at + 1
    /\ UNCHANGED <<session, script, config, optimized, brute, parsed, weighed, wide, program,
                   coefficient_cache>>

\* The next call of the program is a call of
\* adjusted_multinomial_coefficient, line 326.
CallCoefficient ==
    /\ Between
    /\ at < Len(program)
    /\ program[at + 1].op = "adjusted_multinomial_coefficient"
    /\ \E outcome \in {CachedCall(coefficient_cache, None,
                                  CoefficientKey(program[at + 1]),
                                  CoefficientBody(program[at + 1]))} :
           /\ answer' = Answer(outcome)
           /\ results' = Append(results, Answer(outcome))
           /\ coefficient_cache' = outcome.cache
    /\ query' = program[at + 1]
    /\ at' = at + 1
    /\ UNCHANGED <<session, script, config, optimized, brute, parsed, weighed, wide, program,
                   parse_cache>>

\* The next call of the program is a call of compute_probabilities,
\* lines 344-350; its loops and its return are LoopStep and Finish.
CallComputeProbabilities ==
    /\ Between
    /\ at < Len(program)
    /\ program[at + 1].op = "compute_probabilities"
    /\ num_skirmish' = program[at + 1].num_skirmish
    /\ num_assault' = program[at + 1].num_assault
    /\ num_raid' = program[at + 1].num_raid
    /\ fresh_targets' = program[at + 1].fresh_targets
    /\ convert_intercepts' = program[at + 1].convert_intercepts
    /\ pc' = "loop"
    /\ skirmish_combination' = FirstIndices(program[at + 1].num_skirmish)
    /\ assault_combination' = FirstIndices(program[at + 1].num_assault)
    /\ raid_combination' = FirstIndices(program[at + 1].num_raid)
    /\ macrostates_dict' = <<>>
    /\ total_states' = Number(0)
    /\ loop_count' = 0
    /\ sorted_macrostates' = <<>>
    /\ sorted_probs' = <<>>
    /\ parsed' = NotCalled
    /\ weighed' = NotCalled
    /\ query' = program[at + 1]
    /\ answer' = NotCalled
    /\ at' = at + 1
    /\ UNCHANGED <<session, script, brute, wide, program, parse_cache, coefficient_cache,
                   results>>

NextCalls ==
    \/ CallParseDice
    \/ CallCoefficient
    \/ CallComputeProbabilities
    \/ LoopStep
    \/ Finish

SpecCalls == InitCalls /\ [][NextCalls]_vars

-----------------------------------------------------------------------------
(* The roll list of multi-roll mode, streamlit_app.py lines 31-73.  Every  *)
(* interaction with a widget runs the script once from the top; the rest   *)
(* of the script reads st.session_state.rolls and does not write it.       *)

\* The values a slider is moved to.
SliderMoves == {0, SliderMax}

DieNames == {"skirmish", "assault", "raid"}

\* The roll the list is initialised with, line 42.
FirstRoll == [skirmish |-> 0, assault |-> 2, raid |-> 0]

\* The roll Add Roll appends, lines 48-49.
AddedRoll == [skirmish |-> 0, assault |-> 0, raid |-> 0]

\* No slider was moved in a run.
NoMove == [at |-> 0, die |-> "skirmish", value |-> 0]

\* A Remove Roll that removes whatever the list holds.
RemoveRollAlways(list, remove_roll) ==
    IF remove_roll THEN SubSeq(list, 1, Len(list) - 1) ELSE list

\* The Remove Roll button, lines 51-53.
RemoveRoll(list, remove_roll) ==
    IF remove_roll /\ Len(list) > 1
    THEN SubSeq(list, 1, Len(list) - 1) ELSE list

\* An Add Roll that appends a copy of the first roll.
AddRollCopiesFirst(list, add_roll) ==
    IF add_roll THEN Append(list, FirstRoll) ELSE list

\* The Add Roll button, lines 47-49.
AddRoll(list, add_roll) ==
    IF add_roll THEN Append(list, AddedRoll) ELSE list

\* The sliders of the rolls, lines 56-65: a slider gives the count its roll
\* holds unless it is the one that was moved.
Sliders(list, moved) ==
    SubSeq([i \in DOMAIN list |->
               IF moved.at = i
               THEN [list[i] EXCEPT ![moved.die] = moved.value]
               ELSE list[i]],
           1, Len(list))

\* One run of the script, lines 31-65: what st.session_state.rolls is
\* after it.
RunScript(state_rolls, mode, add_roll, remove_roll, moved) ==
    IF ~mode THEN state_rolls
    ELSE LET initialised ==
                 IF state_rolls = None THEN <<FirstRoll>> ELSE state_rolls[1]
         IN  Some(Sliders(RemoveRoll(AddRoll(initialised, add_roll),
                                     remove_roll),
                          moved))

\* The dice the calculation is made for in multi-roll mode, lines 71-73:
\* sum(roll[die] for roll in st.session_state.rolls)
RECURSIVE SumOfRolls(_, _)
SumOfRolls(list, die) ==
    IF list = <<>> THEN 0
    ELSE Head(list)[die] + SumOfRolls(Tail(list), die)

\* The app is opened: the first run of the script, in single-roll mode.
InitRolls ==
    /\ Idle
    /\ query = NotCalled
    /\ answer = NotCalled
    /\ NoProgram

\* The Multi-Roll Mode checkbox is switched, lines 31-34.
ToggleMode ==
    /\ multi_roll_mode' = ~multi_roll_mode
    /\ rolls' = RunScript(rolls, ~multi_roll_mode, FALSE, FALSE, NoMove)
    /\ rolls_before' = rolls
    /\ event' = "multi_roll_mode"
    /\ UNCHANGED <<script, config, optimized, brute, parsed, weighed, wide, queries,
                   program, at, parse_cache, coefficient_cache, results>>

\* Add Roll is clicked, line 47; the list is followed up to MaxRolls rolls.
ClickAddRoll ==
    /\ multi_roll_mode
    /\ Len(rolls[1]) < MaxRolls
    /\ rolls' = RunScript(rolls, TRUE, TRUE, FALSE, NoMove)
    /\ rolls_before' = rolls
    /\ event' = "add_roll"
    /\ UNCHANGED <<script, config, optimized, brute, parsed, weighed, wide, queries,
                   program, at, parse_cache, coefficient_cache, results,
                   multi_roll_mode>>

\* Remove Roll is clicked, line 51.
ClickRemoveRoll ==
    /\ multi_roll_mode
    /\ rolls' = RunScript(rolls, TRUE, FALSE, TRUE, NoMove)
    /\ rolls_before' = rolls
    /\ event' = "remove_roll"
    /\ UNCHANGED <<script, config, optimized, brute, parsed, weighed, wide, queries,
                   program, at, parse_cache, coefficient_cache, results,
                   multi_roll_mode>>

\* A slider of one of the rolls is moved, lines 58-65.
MoveSlider ==
    /\ multi_roll_mode
    /\ \E i \in DOMAIN rolls[1], die \in DieNames, value \in SliderMoves :
           /\ rolls[1][i][die] # value
           /\ rolls' = RunScript(rolls, TRUE, FALSE, FALSE,
                                 [at |-> i, die |-> die, value |-> value])
    /\ rolls_before' = rolls
    /\ event' = "slider"
    /\ UNCHANGED <<script, config, optimized, brute, parsed, weighed, wide, queries,
                   program, at, parse_cache, coefficient_cache, results,
                   multi_roll_mode>>

\* Any other widget is used: the script runs with no button clicked and no
\* roll slider moved.
OtherWidget ==
    /\ rolls' = RunScript(rolls, multi_roll_mode, FALSE, FALSE, NoMove)
    /\ rolls_before' = rolls
    /\ event' = "other"
    /\ UNCHANGED <<script, config, optimized, brute, parsed, weighed, wide, queries,
                   program, at, parse_cache, coefficient_cache, results,
                   multi_roll_mode>>

NextRolls ==
    \/ ToggleMode
    \/ ClickAddRoll
    \/ ClickRemoveRoll
    \/ MoveSlider
    \/ OtherWidget

SpecRolls == InitRolls /\ [][NextRolls]_vars

-----------------------------------------------------------------------------
(* The command-line script arcs_bc.py, which has its own dice, parse_dice, *)
(* evaluate_truth_table and parse_label_for_probability and estimates the  *)
(* probabilities from num_draws random rolls                               *)

\* lines 36-38
skirmish_dice ==
    << <<"blank">>,
       <<"hit">> >>

assault_dice ==
    << <<"hit", "flame">>,
       <<"hit", "hit">>,
       <<"hit", "hit", "flame">>,
       <<"blank">>,
       <<"hit", "intercept">>,
       <<"hit", "hit">> >>

raid_dice ==
    << <<"hitb", "flame">>,
       <<"intercept">>,
       <<"intercept", "key", "key">>,
       <<"key", "flame">>,
       <<"key", "hitb">>,
       <<"intercept">> >>

\* parse_dice of the script, lines 40-107.  Its symbol loop, lines 58-87, is
\* the loop of arcs_funcs.parse_dice.  roll_dict has the three keys in both
\* calls (lines 174 and 182), so line 98 builds the string: all four counts
\* with their letters, zeros included.
bc_parse_dice(skirmish, assault, raid, fresh, convert) ==
    LET acc == Resolve(skirmish, assault, raid, Some(fresh), convert)
        return_str == Str(acc.hits) \o <<"H">> \o Str(acc.hitbs) \o <<"B">>
                          \o Str(acc.damage) \o <<"D">> \o Str(acc.keys)
                          \o <<"K">>
    IN  IF acc.intercepts /\ ~convert
        THEN return_str \o <<"I">> ELSE return_str

\* lines 109-127
bc_evaluate_truth_table(hits, damage, buildings, keys, min_hits, max_damage, min_keys, min_building_hits, max_building_hits) ==
    IF min_hits # None /\ hits < min_hits[1] THEN FALSE
    ELSE IF max_damage # None /\ damage > max_damage[1] THEN FALSE
    ELSE IF min_keys # None /\ keys < min_keys[1] THEN FALSE
    ELSE IF min_building_hits # None /\ buildings < min_building_hits[1]
    THEN FALSE
    ELSE IF max_building_hits # None /\ buildings > max_building_hits[1]
    THEN FALSE
    ELSE TRUE

RECURSIVE bc_parse_label_for_probability(_, _, _, _, _, _, _, _, _)
\* The loop of lines 134-145 from pair i on, result being the sum so far;
\* a probability is counted as its number of samples, out of num_draws.
\* The text printed with the sum, lines 147-163, is left out.
bc_parse_label_for_probability(labels, probs, i, result, min_hits, max_damage, min_keys, min_building_hits, max_building_hits) ==
    IF i > ZipLen(labels, probs) THEN result
    ELSE LET label_dict == DictOfMatches(<<>>, FindAll(labels[i], 1))
             hits == DictGet(label_dict, "H", 0)
             damage == DictGet(label_dict, "D", 0)
             buildings == DictGet(label_dict, "B", 0)
             keys == DictGet(label_dict, "B", 0)
         IN  bc_parse_label_for_probability(
                 labels, probs, i + 1,
                 IF bc_evaluate_truth_table(hits, damage, buildings, keys,
                                            min_hits, max_damage, min_keys,
                                            min_building_hits,
                                            max_building_hits)
                 THEN result + probs[i] ELSE result,
                 min_hits, max_damage, min_keys, min_building_hits,
                 max_building_hits)

\* itertools.combinations_with_replacement(range(n), r), as a set.
AllCombinations(n, r) ==
    {t \in [1..r -> 1..n] : \A i \in 1..(r - 1) : t[i] <= t[i + 1]}

\* The set macrostates of lines 167-174.
Macrostates(a) ==
    {bc_parse_dice(Pick(skirmish_dice, s), Pick(assault_dice, t),
                   Pick(raid_dice, r), a.fresh_targets,
                   a.convert_intercepts) :
         s \in AllCombinations(Len(skirmish_dice), a.skirmish_dice),
         t \in AllCombinations(Len(assault_dice), a.assault_dice),
         r \in AllCombinations(Len(raid_dice), a.raid_dice)}

RECURSIVE SortedKeys(_, _)
\* What sorted(list(roll_hist.keys()), key=lambda k: roll_hist[k]) can be,
\* line 185: roll_hist is filled in the iteration order of a set of
\* strings, which is any order, and the sort keeps outcomes of equal count
\* in that order.
SortedKeys(hist, keys) ==
    IF keys = {} THEN {<<>>}
    ELSE UNION {{<<k>> \o rest : rest \in SortedKeys(hist, keys \ {k})} :
                    k \in {l \in keys :
                               \A other \in keys : hist[l] <= hist[other]}}

\* The dice the script is run with.
ScriptDice ==
    {[skirmish_dice |-> 0, assault_dice |-> 0, raid_dice |-> 0],
     [skirmish_dice |-> 1, assault_dice |-> 0, raid_dice |-> 0],
     [skirmish_dice |-> 0, assault_dice |-> 1, raid_dice |-> 0],
     [skirmish_dice |-> 0, assault_dice |-> 0, raid_dice |-> 1]}

\* The command lines of the script, lines 18-32: an option that is not
\* given is None.
ScriptArgs ==
    {[skirmish_dice |-> dice.skirmish_dice,
      assault_dice |-> dice.assault_dice, raid_dice |-> dice.raid_dice,
      num_draws |-> MaxDraws, fresh_targets |-> fresh,
      convert_intercepts |-> convert, min_hits |-> bounds[1],
      max_damage |-> bounds[2], min_keys |-> bounds[3],
      min_building_hits |-> bounds[4], max_building_hits |-> bounds[5]] :
         dice \in ScriptDice, fresh \in {0, MaxFresh},
         convert \in BOOLEAN, bounds \in [1..5 -> OptionalBounds]}

\* The script is started.
InitScript ==
    /\ Idle
    /\ query = NotCalled
    /\ answer = NotCalled
    /\ program = <<>>
    /\ at = 0
    /\ parse_cache = <<>>
    /\ coefficient_cache = <<>>
    /\ results = <<>>
    /\ NoSession
    /\ args \in ScriptArgs
    /\ script_pc = "start"
    /\ roll_hist = <<>>
    /\ drawn = 0
    /\ printed = None

\* The check of the arguments and the enumeration of the outcomes,
\* lines 33-34 and 167-176.
Enumerate ==
    /\ script_pc = "start"
    /\ IF args.max_damage # None /\ ~args.convert_intercepts
       THEN /\ script_pc' = "ValueError"
            /\ UNCHANGED roll_hist
       ELSE /\ script_pc' = "draw"
            /\ roll_hist' = [macrostate \in Macrostates(args) |-> 0]
    /\ UNCHANGED <<config, optimized, brute, parsed, weighed, wide, queries,
                   memo, session, args, drawn, printed>>

\* One of the num_draws random rolls and its count, lines 178-183.
Draw ==
    /\ script_pc = "draw"
    /\ drawn < args.num_draws
    /\ \E skirmish_roll \in [1..args.skirmish_dice -> FacesOf(skirmish_dice)],
          assault_roll \in [1..args.assault_dice -> FacesOf(assault_dice)],
          raid_roll \in [1..args.raid_dice -> FacesOf(raid_dice)] :
           \E macrostate \in {bc_parse_dice(skirmish_roll, assault_roll,
                                             raid_roll, args.fresh_targets,
                                             args.convert_intercepts)} :
               roll_hist' = [roll_hist EXCEPT ![macrostate] = @ + 1]
    /\ drawn' = drawn + 1
    /\ UNCHANGED <<config, optimized, brute, parsed, weighed, wide, queries,
                   memo, session, args, script_pc, printed>>

\* The two sorts and the report, lines 185-189.
Report ==
    /\ script_pc = "draw"
    /\ drawn = args.num_draws
    /\ script_pc' = "reported"
    /\ IF /\ args.min_hits = None
          /\ args.max_damage = None
          /\ args.min_keys = None
          /\ args.min_building_hits = None
          /\ args.max_building_hits = None
       THEN UNCHANGED printed
       ELSE \E sorted_keys \in SortedKeys(roll_hist, DOMAIN roll_hist) :
                \E probs \in
                        {SortedNumbers(
                             SubSeq([i \in DOMAIN sorted_keys |->
                                        roll_hist[sorted_keys[i]]],
                                    1, Len(sorted_keys)))} :
                    printed' =
                        Some(bc_parse_label_for_probability(
                                 sorted_keys, probs, 1, 0,
                                 args.min_hits, args.max_damage,
                                 args.min_keys, args.min_building_hits,
                                 args.max_building_hits))
    /\ UNCHANGED <<config, optimized, brute, parsed, weighed, wide, queries,
                   memo, session, args, roll_hist, drawn>>

NextScript == Enumerate \/ Draw \/ Report

SpecScript == InitScript /\ [][NextScript]_vars

-----------------------------------------------------------------------------
(* Properties *)

\* The faces of a six-sided die.
DieSides == 6

RECURSIVE SumSeq(_)
SumSeq(list) == IF list = <<>> THEN 0 ELSE Head(list) + SumSeq(Tail(list))

\* The outcome -> probability mappings the comparison of the two results
\* is made on (numerators; the denominators are the two totals).
OptimizedMapping == ZipDict(sorted_macrostates, sorted_probs)
BruteMapping == ZipDict(bf_macrostates, bf_probs)

\* C1: once both have returned, compute_probabilities and the enumeration
\* of every ordered roll over the full face lists give the same number of
\* outcomes, the same set of keys and, for each key, the same probability
\* weight / total.
BruteForceEquivalence ==
    bf_pc = "returned" =>
        /\ Len(sorted_macrostates) = Len(bf_macrostates)
        /\ DOMAIN OptimizedMapping = DOMAIN BruteMapping
        /\ \A k \in DOMAIN OptimizedMapping :
               OptimizedMapping[k] * total_microstates
                   = BruteMapping[k] * total_states

BruteForceCompared ==
    /\ bf_pc = "returned"
    /\ num_skirmish > 0 /\ num_assault > 0 /\ num_raid > 0
    /\ convert_intercepts /\ fresh_targets = Some(MaxFresh)
    /\ Len(sorted_macrostates) > 1

\* C2: the probabilities compute_probabilities returns sum to 1: their
\* numerators, the accumulated weights, sum to the grand total that divides
\* them, and that total is positive.
ProbabilitiesSumToOne ==
    pc = "returned" =>
        /\ total_states > 0
        /\ SumSeq(sorted_probs) = total_states

ReturnedAggregated ==
    /\ pc = "returned"
    /\ Len(sorted_probs) > 1
    /\ loop_count > Len(sorted_probs)

\* C3: when the enumeration loop has finished, total_states equals
\* 2^num_skirmish * 6^(num_assault + num_raid) exactly, and so the assertion
\* after the loop never fails.
GrandTotalIdentity ==
    /\ pc = "loop_end" => total_states = ExpectedTotal
    /\ pc # "assert_failed"

ZeroDice == num_skirmish = 0 /\ num_assault = 0 /\ num_raid = 0

\* C5: with zero dice of every type compute_probabilities raises nothing
\* and returns exactly the outcome "0" with probability 1/1, whatever
\* fresh_targets and convert_intercepts are.
ZeroDiceSingleOutcome ==
    ZeroDice =>
        /\ pc \notin {"raised", "assert_failed"}
        /\ pc = "returned" =>
               /\ sorted_macrostates = << <<"0">> >>
               /\ sorted_probs = <<1>>
               /\ total_states = 1

ZeroDiceReturned ==
    /\ ZeroDice
    /\ pc = "returned"
    /\ convert_intercepts
    /\ fresh_targets = None

\* The number of ordered rolls of as many dice as the combination has, over
\* the face list dice, that show the combination's multiset of faces.
OrderedRolls(combination, dice) ==
    Cardinality(
        {roll \in [DOMAIN combination -> DOMAIN dice] :
            \A i \in DOMAIN dice :
                Counter(Pick(dice, roll), dice[i])
                    = Counter(combination, dice[i])})

\* Whether the loop has just weighed the combinations recorded in weighed.
JustWeighed == weighed.called /\ pc \in {"loop", "loop_end"}

UnsetFreshTargetsRejectedUpfront ==
    (convert_intercepts /\ fresh_targets = None) =>
        /\ ~parsed.called
        /\ loop_count = 0
        /\ pc \notin {"loop_end", "returned"}

\* The number of times a symbol occurs on the faces of a parse_dice call.
SymbolCount(call, symbol) ==
    Counter(RollSymbols(call.skirmish, call.assault, call.raid), symbol)

RECURSIVE StripSymbols(_, _)
\* A face without its intercept symbols, except the first one when keep.
StripSymbols(face, keep) ==
    IF face = <<>> THEN <<>>
    ELSE IF Head(face) = "intercept"
    THEN (IF keep THEN <<Head(face)>> ELSE <<>>)
             \o StripSymbols(Tail(face), FALSE)
    ELSE <<Head(face)>> \o StripSymbols(Tail(face), keep)

RECURSIVE StripFaces(_, _)
\* The faces with all intercept symbols removed but the very first.
StripFaces(faces, keep) ==
    IF faces = <<>> THEN <<>>
    ELSE <<StripSymbols(Head(faces), keep)>>
             \o StripFaces(Tail(faces),
                           keep /\ Counter(Head(faces), "intercept") = 0)

\* C7: a parse_dice call whose faces hold two or more intercept symbols
\* ends as the call on the same faces with all but one intercept symbol
\* removed does: the same key, or the same exception.
SingleInterceptRule ==
    (parsed.called /\ SymbolCount(parsed, "intercept") >= 2) =>
        LET all == StripFaces(parsed.skirmish \o parsed.assault
                                  \o parsed.raid, TRUE)
            s == Len(parsed.skirmish)
            a == Len(parsed.assault)
            single == parse_dice(SubSeq(all, 1, s),
                                 SubSeq(all, s + 1, s + a),
                                 SubSeq(all, s + a + 1, Len(all)),
                                 fresh_targets, convert_intercepts)
        IN  /\ SymbolCount([skirmish |-> SubSeq(all, 1, s),
                            assault |-> SubSeq(all, s + 1, s + a),
                            raid |-> SubSeq(all, s + a + 1, Len(all))],
                           "intercept") = 1
            /\ single.raised = parsed.raised
            /\ single.key = parsed.key

SeveralInterceptsParsed ==
    /\ parsed.called
    /\ parsed.raised = "none"
    /\ SymbolCount(parsed, "intercept") >= 2
    /\ convert_intercepts
    /\ fresh_targets = Some(MaxFresh)
    /\ parsed.assault # <<>>

\* The damage the resolution rule gives a call that returns.
ExpectedDamage(call) ==
    SymbolCount(call, "flame")
        + (IF convert_intercepts /\ SymbolCount(call, "intercept") >= 1
           THEN fresh_targets[1] ELSE 0)

\* C8: when parse_dice returns, the resolved damage is the number of flame
\* symbols, plus fresh_targets once if convert_intercepts is true and at
\* least one intercept symbol was drawn.
DamageRule ==
    (parsed.called /\ parsed.raised = "none") =>
        parsed.acc.damage = ExpectedDamage(parsed)

ConvertedDamageParsed ==
    /\ parsed.called
    /\ parsed.raised = "none"
    /\ convert_intercepts
    /\ fresh_targets = Some(MaxFresh)
    /\ SymbolCount(parsed, "intercept") >= 2
    /\ SymbolCount(parsed, "flame") >= 1
    /\ parsed.acc.damage = MaxFresh + 1

\* Whether the unresolved-intercept marker applies to a call.
MarkerApplies(call) ==
    SymbolCount(call, "intercept") >= 1 /\ ~convert_intercepts

\* C9: a key parse_dice returns ends with "I" exactly when an intercept
\* symbol was drawn and convert_intercepts is false; with convert_intercepts
\* true no returned key contains "I".
InterceptMarkerRule ==
    (parsed.called /\ parsed.raised = "none") =>
        /\ parsed.key # <<>>
        /\ (parsed.key[Len(parsed.key)] = "I") <=> MarkerApplies(parsed)
        /\ convert_intercepts =>
               \A i \in DOMAIN parsed.key : parsed.key[i] # "I"

MarkedKeyParsed ==
    /\ parsed.called
    /\ parsed.raised = "none"
    /\ ~convert_intercepts
    /\ SymbolCount(parsed, "intercept") >= 1
    /\ Len(parsed.key) > 1
    /\ parsed.key[Len(parsed.key)] = "I"

\* "<count><LETTER>" for a nonzero count, nothing for zero.
Segment(count, letter) ==
    IF count = 0 THEN <<>> ELSE Str(count) \o <<letter>>

\* C10: a key parse_dice returns is never empty; it is "0" exactly when
\* hits, building hits, damage and keys are all zero and no marker applies;
\* otherwise it is the segments of the nonzero fields in the order H, B, D,
\* K followed by the marker "I" when that applies.
KeyFormat ==
    (parsed.called /\ parsed.raised = "none") =>
        LET hits == SymbolCount(parsed, "hit")
            hitbs == SymbolCount(parsed, "hitb")
            damage == ExpectedDamage(parsed)
            keys == SymbolCount(parsed, "key")
            allZero == hits = 0 /\ hitbs = 0 /\ damage = 0 /\ keys = 0
        IN  /\ parsed.key # <<>>
            /\ (parsed.key = <<"0">>) <=> (allZero /\ ~MarkerApplies(parsed))
            /\ parsed.key # <<"0">> =>
                   parsed.key =
                       Segment(hits, "H") \o Segment(hitbs, "B")
                           \o Segment(damage, "D") \o Segment(keys, "K")
                           \o (IF MarkerApplies(parsed)
                               THEN <<"I">> ELSE <<>>)

FullKeyParsed ==
    /\ parsed.called
    /\ parsed.raised = "none"
    /\ SymbolCount(parsed, "hit") > 0
    /\ SymbolCount(parsed, "hitb") > 0
    /\ SymbolCount(parsed, "flame") > 0
    /\ SymbolCount(parsed, "key") > 0
    /\ MarkerApplies(parsed)
    /\ Len(parsed.key) = 9

\* The marker of an unresolved intercept: an intercept was seen and is not
\* converted, line 264.
Unresolved(call) == call.acc.intercepts /\ ~convert_intercepts

\* C11: the scanner parse_dice_label recovers from every key parse_dice
\* returns exactly the hits, building hits, damage and keys of the
\* accumulator the key was built from.  The unresolved-intercept flag is not
\* among what the scanner returns: the key carries it as its last character
\* "I".  Accumulators that differ in a field or in the flag so have
\* different keys.
KeyRoundTrip ==
    (parsed.called /\ parsed.raised = "none") =>
        LET fields == LabelFields(parsed.key)
        IN  /\ fields.hits = parsed.acc.hits
            /\ fields.building_hits = parsed.acc.hitbs
            /\ fields.damage = parsed.acc.damage
            /\ fields.keys = parsed.acc.keys
            /\ ~DictHas(parse_dice_label(parsed.key), "I")
            /\ (parsed.key[Len(parsed.key)] = "I") <=> Unresolved(parsed)

\* C11 as stated: the scanner also recovers the unresolved-intercept flag.
KeyRoundTripWithFlag ==
    (parsed.called /\ parsed.raised = "none") =>
        LET fields == LabelFields(parsed.key)
        IN  /\ fields.hits = parsed.acc.hits
            /\ fields.building_hits = parsed.acc.hitbs
            /\ fields.damage = parsed.acc.damage
            /\ fields.keys = parsed.acc.keys
            /\ DictHas(parse_dice_label(parsed.key), "I")
                   <=> Unresolved(parsed)

RoundTripParsed ==
    /\ parsed.called
    /\ parsed.raised = "none"
    /\ parsed.acc.hits > 0
    /\ parsed.acc.hitbs > 0
    /\ parsed.acc.damage > 1
    /\ Unresolved(parsed)
    /\ Len(parse_dice_label(parsed.key)) = 3

\* compute_probabilities has just returned its outcomes.
JustReturned == pc = "returned" /\ total_microstates = 0

\* The fields of the outcomes compute_probabilities returned.
ReturnedFields ==
    {LabelFields(sorted_macrostates[i]) : i \in DOMAIN sorted_macrostates}

\* C12: with convert_intercepts false, every outcome of a configuration of
\* only skirmish dice has damage, building hits and keys 0; every outcome of
\* only raid dice has hits 0; every outcome of only assault dice, or only
\* assault and skirmish dice, has building hits and keys 0.
TypeIsolation ==
    (JustReturned /\ ~convert_intercepts) =>
        \A outcome \in ReturnedFields :
            /\ (num_assault = 0 /\ num_raid = 0) =>
                   /\ outcome.damage = 0
                   /\ outcome.building_hits = 0
                   /\ outcome.keys = 0
            /\ (num_skirmish = 0 /\ num_assault = 0) => outcome.hits = 0
            /\ num_raid = 0 =>
                   /\ outcome.building_hits = 0
                   /\ outcome.keys = 0

SingleTypeReturned ==
    /\ JustReturned
    /\ ~convert_intercepts
    /\ num_skirmish = 0
    /\ num_assault = 0
    /\ num_raid > 1
    /\ \E outcome \in ReturnedFields :
           outcome.building_hits > 0 /\ outcome.keys > 0

\* Whether an outcome satisfies every supplied bound of a record of the
\* eight bounds: a minimum by value >= bound, a maximum by value <= bound.
BoundsSatisfied(hits, damage, buildings, keys, bounds) ==
    /\ bounds["min_hits"] # None => hits >= bounds["min_hits"][1]
    /\ bounds["max_hits"] # None => hits <= bounds["max_hits"][1]
    /\ bounds["min_damage"] # None => damage >= bounds["min_damage"][1]
    /\ bounds["max_damage"] # None => damage <= bounds["max_damage"][1]
    /\ bounds["min_keys"] # None => keys >= bounds["min_keys"][1]
    /\ bounds["max_keys"] # None => keys <= bounds["max_keys"][1]
    /\ bounds["min_building_hits"] # None =>
           buildings >= bounds["min_building_hits"][1]
    /\ bounds["max_building_hits"] # None =>
           buildings <= bounds["max_building_hits"][1]

\* C13: a call of evaluate_truth_table with any of the eight bounds
\* supplied returns, and returns True exactly when the outcome satisfies
\* every supplied bound; with no bound supplied it returns True.
TruthTableAllBounds ==
    (query.op = "evaluate_truth_table" /\ answer.called) =>
        /\ answer.raised = "none"
        /\ answer.value = BoundsSatisfied(query.hits, query.damage,
                                          query.buildings, query.keys,
                                          query.bounds)

\* The labels, by position, whose four parsed fields satisfy every supplied
\* bound of the record.
Matching(labels, bounds) ==
    {i \in DOMAIN labels :
        LET fields == LabelFields(labels[i])
        IN  BoundsSatisfied(fields.hits, fields.damage, fields.building_hits,
                            fields.keys, bounds)}

RECURSIVE SumOver(_, _)
\* The sum of probs[i] over the positions of a set.
SumOver(probs, positions) ==
    IF positions = {} THEN 0
    ELSE LET i == CHOOSE j \in positions : TRUE
         IN  probs[i] + SumOver(probs, positions \ {i})

\* The last n pieces of a text.
Ending(text, n) == SubSeq(text, Len(text) - n + 1, Len(text))

\* C14: a call of parse_label_for_probability with any of the eight bounds
\* supplied returns, and the probability it reports is the sum of probs[i]
\* over exactly the labels whose parsed fields H, D, B, K (0 when missing)
\* satisfy every supplied bound; for an empty label list it is 0.
MatchedProbabilityReported ==
    (query.op = "parse_label_for_probability" /\ answer.called) =>
        LET expected ==
                SumOver(query.probs, Matching(query.labels, query.bounds))
            reported == FormatProbability(expected)
        IN  /\ answer.raised = "none"
            /\ answer.value.result = expected
            /\ Ending(answer.value.result_str, Len(reported)) = reported
            /\ query.labels = <<>> => answer.value.result = 0

\* The phrase that describes a supplied bound.
Phrase(name, n) ==
    CASE name = "min_hits" -> <<"hitting at least ">> \o Str(n) \o <<" times">>
      [] name = "max_hits" ->
             <<"hitting no more than ">> \o Str(n) \o <<" times">>
      [] name = "min_damage" ->
             <<"taking at least ">> \o Str(n) \o <<" damage">>
      [] name = "max_damage" ->
             <<"taking no more than ">> \o Str(n) \o <<" damage">>
      [] name = "min_keys" -> <<"getting at least ">> \o Str(n) \o <<" keys">>
      [] name = "max_keys" ->
             <<"getting no more than ">> \o Str(n) \o <<" keys">>
      [] name = "min_building_hits" ->
             <<"hitting buildings at least ">> \o Str(n) \o <<" times">>
      [] name = "max_building_hits" ->
             <<"hitting buildings no more than ">> \o Str(n) \o <<" times">>

\* The bounds a record supplies.
Supplied(bounds) == {name \in BoundNames : bounds[name] # None}

\* C15: the description parse_label_for_probability builds has one phrase
\* for every supplied bound of the eight and none for a bound not supplied,
\* and the text returned holds these phrases joined by " and ".
DescriptionTotal ==
    (query.op = "parse_label_for_probability" /\ answer.called) =>
        /\ answer.raised = "none"
        /\ LET conditions == answer.value.conditions
                joined == Join(" and ", conditions)
           IN  /\ {conditions[i] : i \in DOMAIN conditions}
                      = {Phrase(name, query.bounds[name][1]) :
                             name \in Supplied(query.bounds)}
               /\ Len(conditions) = Cardinality(Supplied(query.bounds))
               /\ SubSeq(answer.value.result_str, 2, Len(joined) + 1)
                      = joined

\* Whether a key shows a count for a letter: the digits of a positive count
\* stand right before the letter and no digit before them; a count of 0
\* means the letter is not in the key.
Shows(key, count, letter) ==
    IF count = 0 THEN \A p \in DOMAIN key : key[p] # letter
    ELSE \E p \in DOMAIN key :
             /\ p + Len(Str(count)) <= Len(key)
             /\ SubSeq(key, p, p + Len(Str(count))) = Str(count) \o <<letter>>
             /\ p > 1 => ~IsDigit(key[p - 1])

\* C16: the table of get_joint_prob_table has one row per outcome key that
\* compute_probabilities returned, in the same order; the row's hits,
\* damage, building_hits and keys are the counts its key shows (0 for a
\* letter the key does not have) and its prob is the probability of that
\* key, the weight accumulated for it over total_states.
JointTableRows ==
    JustReturned =>
        LET table == get_joint_prob_table
        IN  /\ Len(table) = Len(sorted_macrostates)
            /\ Len(table) = Len(macrostates_dict)
            /\ \A i \in DOMAIN table :
                   LET key == sorted_macrostates[i]
                   IN  /\ Shows(key, table[i].hits, "H")
                       /\ Shows(key, table[i].damage, "D")
                       /\ Shows(key, table[i].building_hits, "B")
                       /\ Shows(key, table[i].keys, "K")
                       /\ DictHas(macrostates_dict, key)
                       /\ table[i].prob = DictGet(macrostates_dict, key, 0)

JointTableBuilt ==
    /\ JustReturned
    /\ Len(get_joint_prob_table) > MaxTotalDice
    /\ \E i \in DOMAIN get_joint_prob_table :
           /\ get_joint_prob_table[i].hits > 0
           /\ get_joint_prob_table[i].damage > 1
           /\ get_joint_prob_table[i].building_hits > 0
           /\ get_joint_prob_table[i].keys > 0
    /\ \E i, j \in DOMAIN get_joint_prob_table :
           get_joint_prob_table[i].prob # get_joint_prob_table[j].prob

\* The columns of the table the rows are grouped by.
Fields == {"hits", "damage", "building_hits", "keys"}

\* The rows, by position, of the group a row belongs to when the table is
\* grouped by a set of columns.
GroupOf(table, i, columns) ==
    {j \in DOMAIN table : \A c \in columns : table[j][c] = table[i][c]}

\* The groups of a grouping, each the set of the positions of its rows.
Groups(table, columns) ==
    {GroupOf(table, i, columns) : i \in DOMAIN table}

\* The prob column of a table.
ProbColumn(table) == [i \in DOMAIN table |-> table[i].prob]

RECURSIVE SumOfGroups(_, _)
\* The sum over the groups of the prob summed per group.
SumOfGroups(table, groups) ==
    IF groups = {} THEN 0
    ELSE LET group == CHOOSE g \in groups : TRUE
         IN  SumOver(ProbColumn(table), group)
                 + SumOfGroups(table, groups \ {group})

\* C17: for every configuration, with or without intercept conversion,
\* grouping the rows of the joint table by any subset of the four columns
\* and summing prob per group gives sums that add up to 1 over the groups
\* (numerators that add up to total_states).
MarginalsSumToOne ==
    JustReturned =>
        \A table \in {SubSeq(get_joint_prob_table, 1,
                              Len(get_joint_prob_table))} :
            \A columns \in SUBSET Fields :
                /\ total_states > 0
                /\ SumOfGroups(table, Groups(table, columns)) = total_states

MarginalsGrouped ==
    /\ JustReturned
    /\ convert_intercepts
    /\ fresh_targets = Some(MaxFresh)
    /\ Cardinality(Groups(get_joint_prob_table, {"hits"})) > 1
    /\ Cardinality(Groups(get_joint_prob_table, {"hits", "damage"}))
           > Cardinality(Groups(get_joint_prob_table, {"hits"}))
    /\ Cardinality(Groups(get_joint_prob_table, Fields))
           > Cardinality(Groups(get_joint_prob_table, {"hits", "damage"}))

\* The weight accumulated for the i-th returned outcome: the numerator of
\* its probability.
WeightOf(i) == DictGet(macrostates_dict, sorted_macrostates[i], 0)

\* The weights of the returned outcomes, in the returned order.
ReturnedWeights ==
    SubSeq([i \in DOMAIN sorted_macrostates |-> WeightOf(i)],
           1, Len(sorted_macrostates))

\* The places in macrostates_dict of the returned outcomes, in the returned
\* order.
ReturnedPlaces ==
    SubSeq([i \in DOMAIN sorted_macrostates |->
               DictIndex(macrostates_dict, sorted_macrostates[i])],
           1, Len(sorted_macrostates))

\* C18: the outcomes compute_probabilities has just returned are in
\* ascending order of probability: for i < j the probability of the i-th
\* outcome, as returned and as accumulated for its key, is at most that of
\* the j-th.
AscendingProbabilities ==
    JustReturned =>
        /\ Len(sorted_probs) = Len(sorted_macrostates)
        /\ \A weights \in {ReturnedWeights} :
               \A i, j \in DOMAIN sorted_macrostates :
                   i < j => /\ sorted_probs[i] <= sorted_probs[j]
                            /\ weights[i] <= weights[j]

ReorderedReturned ==
    /\ JustReturned
    /\ Len(sorted_macrostates) > 2
    /\ \E i, j \in DOMAIN sorted_probs : sorted_probs[i] < sorted_probs[j]
    /\ \E i, j \in DOMAIN macrostates_dict :
           i < j /\ macrostates_dict[i].count > macrostates_dict[j].count

\* C19: when compute_probabilities has just returned, every key of
\* macrostates_dict is returned exactly once, and of two
\* returned keys of equal probability the one first met in the enumeration,
\* the one inserted earlier into macrostates_dict, comes first; with C18
\* this fixes the returned order for the configuration.
TiesInInsertionOrder ==
    JustReturned =>
        /\ Len(sorted_macrostates) = Len(macrostates_dict)
        /\ \A k \in DOMAIN macrostates_dict :
               \E i \in DOMAIN sorted_macrostates :
                   sorted_macrostates[i] = macrostates_dict[k].key
        /\ \A weights \in {ReturnedWeights}, places \in {ReturnedPlaces} :
               \A i, j \in DOMAIN sorted_macrostates :
                   (i < j /\ weights[i] = weights[j]) =>
                       places[i] < places[j]

TiesReturned ==
    /\ JustReturned
    /\ \E i, j \in DOMAIN sorted_macrostates :
           /\ i + 1 < j
           /\ WeightOf(i) = WeightOf(j)
    /\ \E i, j \in DOMAIN macrostates_dict :
           i < j /\ macrostates_dict[i].count > macrostates_dict[j].count

DieTypes == {"skirmish", "assault", "raid"}

\* The sum of the frequencies in FACE_FREQUENCIES of the faces a die type's
\* combinations are drawn from.
FrequencySum(dice_str) ==
    SumSeq([i \in DOMAIN EnumeratedDiceOf(dice_str) |->
               FACE_FREQUENCIES(dice_str, EnumeratedDiceOf(dice_str)[i])])

\* C20 (as amended): for each die type the frequencies of the faces its
\* combinations are drawn from sum to the number of faces of the type's
\* full face list: 6 for assault and raid, 2 for skirmish.
FrequenciesSumToFaces ==
    /\ \A dice_str \in DieTypes :
           FrequencySum(dice_str) = Len(DiceOf(dice_str))
    /\ FrequencySum("assault") = DieSides
    /\ FrequencySum("raid") = DieSides
    /\ FrequencySum("skirmish") = Len(SKIRMISH_DICE)
    /\ JustWeighed =>
           /\ \A i \in DOMAIN weighed.skirmish :
                  FACE_FREQUENCIES("skirmish", weighed.skirmish[i]) = 1
           /\ \A i \in DOMAIN weighed.assault :
                  FACE_FREQUENCIES("assault", weighed.assault[i]) \in {1, 2}
           /\ \A i \in DOMAIN weighed.raid :
                  FACE_FREQUENCIES("raid", weighed.raid[i]) \in {1, 2}

\* C20 (as claimed): while compute_probabilities enumerates, the sum is 6
\* for each of the three die types.
FrequenciesSumToSix ==
    pc = "loop" =>
        \A dice_str \in DieTypes : FrequencySum(dice_str) = DieSides

AllTypesWeighed ==
    /\ JustWeighed
    /\ weighed.skirmish # <<>>
    /\ weighed.assault # <<>>
    /\ weighed.raid # <<>>
    /\ FACE_FREQUENCIES("assault", weighed.assault[1]) = 2
    /\ FACE_FREQUENCIES("skirmish", weighed.skirmish[1]) = 1

\* C21: the keys compute_probabilities has just returned are pairwise
\* different, and there are as many of them as returned probabilities.
ReturnedKeysUnique ==
    JustReturned =>
        /\ Len(sorted_macrostates) = Len(sorted_probs)
        /\ \A i, j \in DOMAIN sorted_macrostates :
               i # j => sorted_macrostates[i] # sorted_macrostates[j]

RepeatedKeysReturned ==
    /\ JustReturned
    /\ Len(sorted_macrostates) > MaxTotalDice
    /\ loop_count > Len(sorted_macrostates) + MaxTotalDice
    /\ num_skirmish > 0 /\ num_assault > 0 /\ num_raid > 0

\* The symbols parse_dice knows.
Symbols == {"hit", "flame", "intercept", "blank", "hitb", "key"}

\* The symbols on the faces of a call of parse_dice.
CallSymbols(call) ==
    LET symbols == RollSymbols(call.skirmish, call.assault, call.raid)
    IN  {symbols[i] : i \in DOMAIN symbols}

\* The symbols on the faces of a face list.
ListSymbols(dice) == {Flatten(dice)[i] : i \in DOMAIN Flatten(dice)}

\* A call of parse_dice has just been answered.
ParseDiceAnswered == answer.called /\ query.op = "parse_dice"

\* C22: a call of parse_dice with a face that holds a symbol outside hit,
\* flame, intercept, blank, hitb, key ends with an exception, returns no
\* key and leaves nothing in the cache; the faces of SKIRMISH_DICE,
\* ASSAULT_DICE, RAID_DICE and of the reduced lists hold no such symbol, and
\* no call on them raises NotImplementedError.
UnknownSymbolAborts ==
    /\ (ParseDiceAnswered /\ ~(CallSymbols(query) \subseteq Symbols)) =>
           /\ answer.raised \in {"NotImplementedError", "ValueError"}
           /\ answer.raised = "ValueError" =>
                  /\ query.convert_intercepts
                  /\ query.fresh_targets = None
                  /\ "intercept" \in CallSymbols(query)
           /\ answer.value = None
           /\ ~CacheHas(parse_cache, ParseKey(query))
    /\ (ParseDiceAnswered /\ CallSymbols(query) \subseteq Symbols) =>
           answer.raised # "NotImplementedError"
    /\ \A dice \in {SKIRMISH_DICE, ASSAULT_DICE, UNIQUE_ASSAULT_DICE,
                     RAID_DICE, UNIQUE_RAID_DICE} :
           ListSymbols(dice) \subseteq Symbols

ForeignFaceParsed ==
    /\ ParseDiceAnswered
    /\ query.raid = <<ForeignFace>>
    /\ query.assault = << <<"hit", "intercept">> >>
    /\ query.convert_intercepts
    /\ query.fresh_targets = Some(MaxFresh)
    /\ answer.raised = "NotImplementedError"

\* The calls of compute_probabilities of the program that have ended.
ComputeCalls ==
    {i \in 1..Len(results) : program[i].op = "compute_probabilities"}

\* C23: two calls of compute_probabilities with the same num_skirmish,
\* num_assault, num_raid, fresh_targets and convert_intercepts end the same
\* way, with the same keys in the same order and the same probabilities,
\* whatever calls the process made before and between them.
SameArgumentsSameResult ==
    \A i, j \in ComputeCalls :
        program[i] = program[j] => results[i] = results[j]

ComputedTwice ==
    \E i, j \in ComputeCalls :
        /\ i + 1 < j
        /\ program[i] = program[j]
        /\ program[i].convert_intercepts
        /\ results[j].raised = "none"
        /\ \A k \in (i + 1)..(j - 1) :
               /\ program[k].op = "parse_dice"
               /\ program[k].raid = << <<"intercept">> >>
               /\ ~program[k].convert_intercepts

\* C24: with convert_intercepts false, every row of the joint table of a
\* configuration has 0 <= hits <= num_skirmish + 2 * num_assault,
\* 0 <= damage <= num_assault + num_raid, 0 <= building_hits <= num_raid
\* and 0 <= keys <= 2 * num_raid, and each of the four fields is 0 in some
\* row.
FieldsWithinRange ==
    (JustReturned /\ ~convert_intercepts) =>
        \A table \in {SubSeq(get_joint_prob_table, 1,
                              Len(get_joint_prob_table))} :
            /\ \A i \in DOMAIN table :
                   /\ table[i].hits \in 0..(num_skirmish + 2 * num_assault)
                   /\ table[i].damage \in 0..(num_assault + num_raid)
                   /\ table[i].building_hits \in 0..num_raid
                   /\ table[i].keys \in 0..(2 * num_raid)
            /\ \A field \in Fields :
                   \E i \in DOMAIN table : table[i][field] = 0

RangesAttained ==
    /\ JustReturned
    /\ ~convert_intercepts
    /\ num_skirmish > 0 /\ num_assault > 0 /\ num_raid > 0
    /\ \A table \in {SubSeq(get_joint_prob_table, 1,
                             Len(get_joint_prob_table))} :
           /\ \E i \in DOMAIN table :
                  table[i].hits = num_skirmish + 2 * num_assault
           /\ \E i \in DOMAIN table :
                  table[i].damage = num_assault + num_raid
           /\ \E i \in DOMAIN table : table[i].building_hits = num_raid
           /\ \E i \in DOMAIN table : table[i].keys = 2 * num_raid

\* What an uncached parse_dice returns for the arguments of a cache key.
UncachedKey(key) == parse_dice(key[1], key[2], key[3], key[4], key[5]).key

\* C25: after any sequence of calls, evicting ones included, a call of the
\* memoized parse_dice or adjusted_multinomial_coefficient ends as the
\* uncached body ends for the same arguments, whether made on its own or
\* from compute_probabilities, and each cache holds for every key the value
\* the body returns for that key.
ReferentiallyTransparent ==
    /\ (answer.called /\ query.op = "parse_dice") =>
           /\ answer.raised = ParseDiceBody(query).raised
           /\ answer.raised = "none" =>
                  answer.value = ParseDiceBody(query).value
    /\ (answer.called /\ query.op = "adjusted_multinomial_coefficient") =>
           /\ answer.raised = "none"
           /\ answer.value = CoefficientBody(query).value
    /\ (parsed.called /\ parsed.raised = "none") =>
           parsed.key = parse_dice(parsed.skirmish, parsed.assault,
                                   parsed.raid, fresh_targets,
                                   convert_intercepts).key
    /\ \A i \in DOMAIN parse_cache :
           parse_cache[i].value = UncachedKey(parse_cache[i].key)
    /\ \A i \in DOMAIN coefficient_cache :
           coefficient_cache[i].value =
               adjusted_multinomial_coefficient(coefficient_cache[i].key[1],
                                                coefficient_cache[i].key[2])
    /\ Len(parse_cache) <= LruSize

EvictedThenRecomputed ==
    /\ answer.called
    /\ query.op = "parse_dice"
    /\ query.convert_intercepts
    /\ answer.raised = "none"
    /\ ~answer.hit
    /\ \E i, j \in 1..(at - 1) :
           /\ i < j
           /\ program[i] = query
           /\ program[j].op = "parse_dice"
           /\ ~results[j].hit
           /\ program[j].raid = query.raid
           /\ ~program[j].convert_intercepts

\* C26: the key list and the probability list, sorted one without the
\* other, stay aligned: the i-th returned probability is the weight
\* accumulated for the i-th returned key (over total_states), so the
\* pairs of the two lists give each key its own probability, and those
\* probabilities add up to the whole.
ListsAligned ==
    JustReturned =>
        \A probs \in {SubSeq(sorted_probs, 1, Len(sorted_probs))} :
            /\ Len(probs) = Len(sorted_macrostates)
            /\ \A i \in DOMAIN sorted_macrostates :
                   /\ DictHas(macrostates_dict, sorted_macrostates[i])
                   /\ probs[i] = macrostates_dict[
                                     DictIndex(macrostates_dict,
                                               sorted_macrostates[i])].count
            /\ SumSeq(probs) = total_states

SortedApart ==
    /\ JustReturned
    /\ sorted_macrostates[1] # macrostates_dict[1].key
    /\ sorted_probs[1] # macrostates_dict[1].count
    /\ \E i \in DOMAIN sorted_probs :
           /\ i > 1
           /\ sorted_probs[i] = sorted_probs[i - 1]
    /\ \E i \in DOMAIN sorted_probs :
           /\ i > 1
           /\ sorted_probs[i] > sorted_probs[i - 1]

\* The orders the dice of a pool can be passed in.
Reorderings(faces) ==
    {SubSeq([i \in DOMAIN faces |-> faces[p[i]]], 1, Len(faces)) :
         p \in Permutations(DOMAIN faces)}

\* C27: parse_dice gives the same outcome for every order of the dice
\* within the skirmish, the assault and the raid tuple, for any
\* fresh_targets and convert_intercepts: the same key when it returns, and
\* it raises for one order only if it raises for all.
ReorderingInvariant ==
    parsed.called =>
        \A skirmish \in Reorderings(parsed.skirmish) :
            \A assault \in Reorderings(parsed.assault) :
                \A raid \in Reorderings(parsed.raid) :
                    \A other \in {parse_dice(skirmish, assault, raid,
                                             fresh_targets,
                                             convert_intercepts)} :
                        /\ other.raised = parsed.raised
                        /\ other.key = parsed.key

OrderedRollParsed ==
    /\ parsed.called
    /\ bf_pc = "loop"
    /\ convert_intercepts
    /\ fresh_targets = Some(MaxFresh)
    /\ parsed.assault = << <<"hit", "flame">>, <<"hit", "intercept">> >>
    /\ parsed.raid = << <<"intercept", "key", "key">> >>
    /\ parsed.raised = "none"

\* The key of the branch that emits H, B, D and K, lines 243-253, with the
\* intercept mark and the "0" of lines 264-267.
UniformKey(acc) ==
    LET parts == Part(acc.hits, "H") \o Part(acc.hitbs, "B")
                     \o Part(acc.damage, "D") \o Part(acc.keys, "K")
        marked == IF acc.intercepts /\ ~convert_intercepts
                  THEN parts \o <<"I">> ELSE parts
    IN  IF marked # <<>> THEN marked ELSE <<"0">>

\* C28: in every call of parse_dice roll_dict has the three keys skirmish,
\* assault and raid, also when a pool is empty; the key is built by the
\* branch that emits H, B, D and K, never by the skirmish-only, raid-only
\* or assault-only branch, and no assertion of parse_dice fails.
UniformBranchTaken ==
    parsed.called =>
        /\ RollDictKeys = {"skirmish", "assault", "raid"}
        /\ RollDictKeys \notin {{"skirmish"}, {"raid"}}
        /\ "raid" \in RollDictKeys
        /\ ~KeyAssertionFails(parsed.acc)
        /\ parsed.raised # "AssertionError"
        /\ parsed.raised = "none" => parsed.key = UniformKey(parsed.acc)

EmptyPoolsParsed ==
    /\ parsed.called
    /\ parsed.skirmish = <<>>
    /\ parsed.raid = <<>>
    /\ Len(parsed.assault) = MaxTotalDice
    /\ parsed.acc.intercepts
    /\ ~convert_intercepts
    /\ parsed.raised = "none"

\* C29: in multi-roll mode the roll list of the session starts as the one
\* roll (0 skirmish, 2 assault, 0 raid) and holds at least one roll after
\* any clicks of Add Roll and Remove Roll; Add Roll appends a roll with all
\* counts 0; Remove Roll takes the last roll away when the list holds more
\* than one, and leaves the list as it is otherwise.
RollListNeverEmpty ==
    /\ multi_roll_mode => rolls # None
    /\ rolls # None => Len(rolls[1]) >= 1
    /\ (rolls_before = None /\ rolls # None) => rolls = Some(<<FirstRoll>>)
    /\ event = "add_roll" =>
           rolls = Some(Append(rolls_before[1], AddedRoll))
    /\ (event = "remove_roll" /\ Len(rolls_before[1]) > 1) =>
           rolls = Some(SubSeq(rolls_before[1], 1,
                               Len(rolls_before[1]) - 1))
    /\ (event = "remove_roll" /\ Len(rolls_before[1]) <= 1) =>
           rolls = rolls_before

LastRollKept ==
    /\ event = "remove_roll"
    /\ Len(rolls_before[1]) = 1
    /\ rolls_before[1][1] # FirstRoll
    /\ rolls_before[1][1] # AddedRoll

\* The samples of a run of arcs_bc.py whose outcome has at least min_hits
\* hits, at most max_damage damage, at least min_keys keys, the count at
\* the letter K, and building hits within the two building bounds.
SamplesWithin ==
    LET Within(label) ==
            LET outcome == LabelFields(label)
            IN  /\ args.min_hits # None =>
                       outcome.hits >= args.min_hits[1]
                /\ args.max_damage # None =>
                       outcome.damage <= args.max_damage[1]
                /\ args.min_keys # None =>
                       outcome.keys >= args.min_keys[1]
                /\ args.min_building_hits # None =>
                       outcome.building_hits >= args.min_building_hits[1]
                /\ args.max_building_hits # None =>
                       outcome.building_hits <= args.max_building_hits[1]
        RECURSIVE Samples(_)
        Samples(labels) ==
            IF labels = {} THEN 0
            ELSE LET label == CHOOSE l \in labels : TRUE
                 IN  (IF Within(label) THEN roll_hist[label] ELSE 0)
                         + Samples(labels \ {label})
    IN  Samples(DOMAIN roll_hist)

\* C30: the probability arcs_bc.py reports counts a sampled outcome only if
\* the count at the letter K of its label is at least --min-keys (and the
\* other bounds given hold of its H, D and B counts).
MinKeysAgainstKeys ==
    (script_pc = "reported" /\ printed # None) =>
        printed = Some(SamplesWithin)

====
